---- MODULE Spec2Model ----
(***************************************************************************)
(* Model of the STM32 DFU firmware loader (dfu_loader_flash and the        *)
(* functions it calls).  The repository holds the loader twice: an older   *)
(* copy (variant 1: always mass erase, one block number per chunk) and the *)
(* layout-aware copy (variant 2: memory layout, lazy page erase, fixed     *)
(* data block number, status client).  Both are modelled; the variable     *)
(* `variant' says which copy is running.                                   *)
(*                                                                         *)
(* One action is the host code between two blocking USB interactions; the  *)
(* outcome of each interaction (the device's answer, a transport error) is *)
(* chosen by \E from the sets below.  The functions' activation records    *)
(* are kept on `stack'; `pc' is the position inside dfu_loader_flash.      *)
(***************************************************************************)
EXTENDS Integers, Sequences, FiniteSets, TLC

(* ------------------------------------------------------------------ *)
(* Bounds of the model                                                 *)
(* ------------------------------------------------------------------ *)
\* longest firmware image, in bytes, below the single long image of
\* ImageLengths; also the most chunks a run's transfer size cuts its
\* image into
MaxLen == 4
\* largest negotiated transfer size (wTransferSize) a device reports,
\* below the largest one a uint16_t holds
MaxTransfer == 2
\* transient GETSTATUS replies tolerated inside one dfu_wait_ready call
MaxPolls == 1
\* devices in the list one enumeration returns
MaxDevices == 2

(* ------------------------------------------------------------------ *)
(* Program constants                                                   *)
(* ------------------------------------------------------------------ *)
STM32_BASE_ADDRESS == 134217728
\* 0xFFFFFFFFu: the "no page erased yet" sentinel of last_erased_page; as
\* a 32-bit pattern it is -1, and no page base of the model equals it
NO_PAGE == -1
DISCOVERY_TIMEOUT_MS == 10000
DISCOVERY_SLEEP_MS == 100
LAST_ERROR_SIZE == 160
DFU_STATE_appIDLE == 0
DFU_STATE_appDETACH == 1
DFU_STATE_dfuIDLE == 2
DFU_STATE_dfuDNLOAD_SYNC == 3
DFU_STATE_dfuDNBUSY == 4
DFU_STATE_dfuDNLOAD_IDLE == 5
DFU_STATE_dfuMANIFEST_SYNC == 6
DFU_STATE_dfuMANIFEST == 7
DFU_STATE_dfuMANIFEST_WAIT_RESET == 8
DFU_STATE_dfuUPLOAD_IDLE == 9
DFU_STATE_dfuERROR == 10
\* uint16_t: the type of a block number and of a DNLOAD length
UINT16_MOD == 65536
\* the layout-aware copy's transfer size when the descriptor gives none
STM32_DEFAULT_TRANSFER == 1024

Min(a, b) == IF a < b THEN a ELSE b

(* ------------------------------------------------------------------ *)
(* Status messages.  A message is named by its format string; the      *)
(* older copy's messages are Chinese and are named by the English text *)
(* of the same step.                                                    *)
(* ------------------------------------------------------------------ *)
MSG_LOADING == "Loading firmware file..."
MSG_INIT == "Initialising USB..."
MSG_WAITING == "Waiting for DFU device..."
MSG_USING == "Using DFU interface %u"
MSG_PREPARING == "Preparing DFU state..."
MSG_MASS_ERASE == "Performing mass erase..."
MSG_SET_ADDRESS == "Setting write address 0x%08X"
MSG_WRITING == "Writing firmware..."
MSG_DONE == "Firmware written, device restarting"
MSG_UNKNOWN == "Unknown DFU failure"
ERR_PATH == "Error: firmware path invalid"
ERR_FILE_OPEN == "Error: unable to open firmware file"
ERR_FILE_SIZE == "Error: unable to read firmware size"
ERR_FILE_EMPTY == "Error: firmware file is empty"
ERR_FILE_MEM == "Error: insufficient memory for firmware"
ERR_FILE_READ == "Error: failed to read firmware file"
ERR_LIBUSB_INIT == "Error: libusb init failed (%s)"
ERR_ENUMERATE == "Error: failed to enumerate USB devices (%s)"
ERR_OPEN == "Error: cannot open DFU device (%s)"
ERR_ACCESS == "Error: cannot access DFU device, install WinUSB/libusbK (%s)"
ERR_NO_INTERFACE == "Error: DFU interface not found on device"
ERR_CLAIM == "Error: failed to claim DFU interface (%s)"
ERR_SET_ALT == "Error: failed to set DFU alt setting (%s)"
ERR_NOT_FOUND == "Error: DFU device not found (VID=0x%04X PID=0x%04X)"
ERR_GET_STATUS == "Error: failed to read DFU status (%s)"
ERR_DFU_STATUS == "Error: DFU status 0x%02X (state=0x%02X)"
ERR_DFU_ERROR_STATE == "Error: DFU entered error state"
ERR_SEND == "Error: failed to send DFU data (%s)"
ERR_SEND_SHORT == "Error: DFU data sent incomplete"
ERR_ADDRESS == "Error: address 0x%08X outside DFU segment"
ERR_CHUNK_MEM == "Error: insufficient memory for transfer buffer"
ERR_WRITE == "Error: write failed at 0x%08X (len=%u)"

PhaseMessages ==
  {MSG_LOADING, MSG_INIT, MSG_WAITING, MSG_USING, MSG_PREPARING,
   MSG_MASS_ERASE, MSG_SET_ADDRESS, MSG_WRITING, MSG_DONE}

ErrorMessages ==
  {ERR_PATH, ERR_FILE_OPEN, ERR_FILE_SIZE, ERR_FILE_EMPTY, ERR_FILE_MEM,
   ERR_FILE_READ, ERR_LIBUSB_INIT, ERR_ENUMERATE, ERR_OPEN, ERR_ACCESS,
   ERR_NO_INTERFACE, ERR_CLAIM, ERR_SET_ALT, ERR_NOT_FOUND, ERR_GET_STATUS,
   ERR_DFU_STATUS, ERR_DFU_ERROR_STATE, ERR_SEND, ERR_SEND_SHORT,
   ERR_ADDRESS, ERR_CHUNK_MEM, ERR_WRITE}

(* ------------------------------------------------------------------ *)
(* Inputs                                                               *)
(* ------------------------------------------------------------------ *)
\* status_buf_len as the caller passes it; 0 stands for "no buffer"
\* (status_buf NULL or status_buf_len 0), 1 is a buffer that holds only
\* the terminator, 2 one that holds a single character
StatusBufLens == {0, 1, 2, 256}

\* what load_firmware_file can meet
LoadFailures ==
  {ERR_PATH, ERR_FILE_OPEN, ERR_FILE_SIZE, ERR_FILE_EMPTY, ERR_FILE_MEM,
   ERR_FILE_READ}

\* memory layouts parse_alt_memory_layout can return for the selected
\* alt setting's name (a sequence of segments, at most 8); <<>> is the
\* layout of a name with no parsable segment (layout_valid = false)
Seg(s, e, p) == [start |-> s, end |-> e, page_size |-> p]
Layouts ==
  { <<>>,
    \* "/0x08000000/3*1": three pages of one byte
    << Seg(STM32_BASE_ADDRESS, STM32_BASE_ADDRESS + 3, 1) >>,
    \* "/0x08000000/2*2": two pages of two bytes
    << Seg(STM32_BASE_ADDRESS, STM32_BASE_ADDRESS + 4, 2) >>,
    \* "/0x08000000/1*2/0x08000002/1*2": two segments of one page
    << Seg(STM32_BASE_ADDRESS, STM32_BASE_ADDRESS + 2, 2),
       Seg(STM32_BASE_ADDRESS + 2, STM32_BASE_ADDRESS + 4, 2) >>,
    \* "/0x08000002/1*2": the base address is in no segment
    << Seg(STM32_BASE_ADDRESS + 2, STM32_BASE_ADDRESS + 4, 2) >> }

\* what open_stm32_dfu_device_once meets with one device of the list, by
\* how far it gets: the descriptor cannot be read or names another
\* vendor/product ("skip"), libusb_open fails, select_dfu_interface finds
\* nothing, the claim fails, the alt setting cannot be set, or all succeed
DeviceOutcomes ==
  {"skip", "open_access", "open_fail", "no_interface", "claim_fail",
   "alt_fail", "ok"}

\* wTransferSize values parse_transfer_size can return (never 0): the
\* small ones, the default and the largest uint16_t
TransferSizes ==
  (1..MaxTransfer) \cup {STM32_DEFAULT_TRANSFER, UINT16_MOD - 1}

\* sizes of the image file load_firmware_file reads (never 0): the small
\* ones, one of 3000 bytes (three chunks at the default transfer size of
\* the layout-aware copy) and one as long
\* as the largest transfer size
ImageLengths ==
  (1..MaxLen) \cup {3000, UINT16_MOD - 1}

\* the result of the GETSTATUS control transfer: a libusb error, or the
\* number of bytes transferred and the reply's status, state and
\* poll-timeout fields
TransportErrors == {"NO_DEVICE", "TIMEOUT", "PIPE"}
PollTimeouts == {0, 1, 4, 5, 100}
\* 0 (OK) and a nonzero bStatus (errVERIFY)
StatusBytes == {0, 7}
StateBytes == 0..11
GetStatusResults ==
  [err : TransportErrors, n : {0}, status : {0}, state : {0}, poll : {0}]
  \cup [err : {""}, n : {0, 5}, status : {0}, state : {0}, poll : {0}]
  \cup [err : {""}, n : {6}, status : StatusBytes, state : StateBytes,
        poll : PollTimeouts]

\* the GETSTATUS results a flash run is explored with: one for each way
\* dfu_get_status and dfu_wait_ready can take
FlashReplies ==
  { [err |-> "NO_DEVICE", n |-> 0, status |-> 0, state |-> 0, poll |-> 0],
    [err |-> "TIMEOUT", n |-> 0, status |-> 0, state |-> 0, poll |-> 0],
    [err |-> "", n |-> 5, status |-> 0, state |-> 0, poll |-> 0],
    [err |-> "", n |-> 6, status |-> 7,
     state |-> DFU_STATE_dfuERROR, poll |-> 0],
    [err |-> "", n |-> 6, status |-> 0, state |-> DFU_STATE_dfuIDLE,
     poll |-> 0],
    [err |-> "", n |-> 6, status |-> 0, state |-> DFU_STATE_dfuDNLOAD_IDLE,
     poll |-> 0],
    [err |-> "", n |-> 6, status |-> 0, state |-> DFU_STATE_dfuMANIFEST,
     poll |-> 0],
    [err |-> "", n |-> 6, status |-> 0, state |-> DFU_STATE_dfuERROR,
     poll |-> 0],
    [err |-> "", n |-> 6, status |-> 0, state |-> DFU_STATE_dfuDNBUSY,
     poll |-> 0],
    [err |-> "", n |-> 6, status |-> 0, state |-> DFU_STATE_dfuDNBUSY,
     poll |-> 4] }

\* the result of a DNLOAD control transfer of `length' bytes: a libusb
\* error or the number of bytes transferred
DnloadResults(length) ==
  [err : {"NO_DEVICE", "TIMEOUT"}, n : {0}]
  \cup [err : {""}, n : {length} \cup (IF length > 0 THEN {length - 1} ELSE {})]

\* the result of a DNLOAD that a ready device accepts: all bytes
\* transferred
ReadyDnload(length) == {[err |-> "", n |-> length]}

(* ------------------------------------------------------------------ *)
(* State                                                                *)
(* ------------------------------------------------------------------ *)
VARIABLES
  variant,          \* 1: older copy, 2: layout-aware copy
  status_buf_len,   \* the caller's status_buf_len (0: no buffer)
  pc,               \* position in dfu_loader_flash
  stack,            \* activation records of the functions it called
  ret,              \* return value of the call that returned last
  success,          \* dfu_loader_flash's local `success'
  progress,         \* percentages received by the progress callback
  status_buf,       \* text in the caller's status buffer
  last_msg,         \* the message of the last set_status call on status_buf
  cb_error,         \* an error message was delivered to client->status_cb
  firmware_len,     \* bytes in the loaded image
  firmware_data,    \* the image buffer is allocated
  ctx,              \* libusb_init succeeded and libusb_exit was not called
  chunk_buffer,     \* the transfer buffer is allocated
  device,           \* stm32_dfu_device_t of the run
  usb_open,         \* device handles open (libusb_open without libusb_close)
  usb_claimed,      \* interfaces claimed on an open handle
  usb_orphan,       \* an interface was claimed and its handle closed
                    \* without libusb_release_interface
  elapsed,          \* wait_for_stm32_dfu_device's `elapsed'
  devs_left,        \* open_stm32_dfu_device_once: devices of the list not
                    \* yet visited (count - idx)
  last_error,       \* wait_for_stm32_dfu_device's last_error buffer
  written,          \* image bytes written so far
  block_number,     \* older copy: block number of the next data block
  wire,             \* DNLOAD requests sent, in order
  lastWR,           \* the dfu_wait_ready call that returned last
  call,             \* a helper function called on its own: its name and
                    \* arguments
  call_result,      \* what that call returned
  request,          \* serialslider: the global packet `request'
  port,             \* serialslider: the bytes written to hPort
  reader            \* serialslider: the serial_read_cmd call in progress

vars ==
  << variant, status_buf_len, pc, stack, ret, success, progress, status_buf,
     last_msg, cb_error, firmware_len, firmware_data, ctx, chunk_buffer,
     device, usb_open, usb_claimed, usb_orphan, elapsed, devs_left, last_error,
     written, block_number, wire, lastWR, call, call_result, request, port,
     reader >>

\* the slider's serial port is not part of a flash run
BUFSIZE == 128
ZeroPacket == [i \in 1..BUFSIZE |-> 0]
NoReader == [pc |-> "idle"]
slider_vars == << request, port, reader >>
NoSlider == request = ZeroPacket /\ port = <<>> /\ reader = NoReader

\* no helper function is called on its own during a flash run
unit_vars == << call, call_result, request, port, reader >>
NoUnit == [fn |-> ""]
NoResult == [done |-> FALSE]

(* ------------------------------------------------------------------ *)
(* set_status and report_progress                                       *)
(* ------------------------------------------------------------------ *)
\* text of a buffer: the message it was formatted from and the number of
\* characters that fit
EmptyText == [msg |-> "", len |-> 0]

\* _vsnprintf_s(buffer, buffer_len, _TRUNCATE, ...): at most buffer_len - 1
\* characters and the terminator
Truncate_short(msg, buffer_len) ==
  [msg |-> msg, len |-> Min(Len(msg), IF buffer_len > 1 THEN buffer_len - 2 ELSE 0)]
Truncate(msg, buffer_len) == [msg |-> msg, len |-> Min(Len(msg), buffer_len - 1)]

\* set_status(buffer, buffer_len, ...) on a buffer holding `old'
set_status_buffer(old, buffer_len, msg) ==
  IF buffer_len > 0 THEN Truncate(msg, buffer_len) ELSE old

\* set_status(status_buf, status_buf_len, progress_ctx, ...) called for
\* each message of msgs (non-empty) in order
set_status(msgs) ==
  /\ status_buf' = set_status_buffer(status_buf, status_buf_len, msgs[Len(msgs)])
  /\ last_msg' = msgs[Len(msgs)]
  /\ cb_error' = (cb_error \/ (variant = 2 /\ \E i \in 1..Len(msgs) : msgs[i] \in ErrorMessages))

no_status == UNCHANGED << status_buf, last_msg, cb_error >>

\* report_progress(progress_cb, progress_ctx, percent), once per element
report_progress(percents) == progress' = progress \o percents

(* ------------------------------------------------------------------ *)
(* Memory layout                                                        *)
(* ------------------------------------------------------------------ *)
\* find_segment: index of the first segment containing address, 0 for NULL
find_segment_inclusive(layout, address) ==
  LET hits == { i \in 1..Len(layout) :
                  address >= layout[i].start /\ address <= layout[i].end }
  IN IF hits = {} THEN 0 ELSE CHOOSE i \in hits : \A j \in hits : i <= j
find_segment(layout, address) ==
  LET hits == { i \in 1..Len(layout) :
                  address >= layout[i].start /\ address < layout[i].end }
  IN IF hits = {} THEN 0 ELSE CHOOSE i \in hits : \A j \in hits : i <= j


(* ------------------------------------------------------------------ *)
(* Initial state: dfu_loader_flash is entered                           *)
(* ------------------------------------------------------------------ *)
\* stm32_dfu_device_t device = {0}
NoDevice ==
  [handle |-> FALSE, transfer_size |-> 0, layout_valid |-> FALSE,
   layout |-> <<>>, mass_erased |-> FALSE, last_erased_page |-> 0]

NoCall == [allow_manifest |-> FALSE, result |-> FALSE, clr |-> 0,
           err |-> "", n |-> 0, status |-> 0, state |-> 0]

Init ==
  /\ variant \in {1, 2}
  /\ status_buf_len \in StatusBufLens
  /\ pc = "start"
  /\ stack = <<>>
  /\ ret = FALSE
  /\ success = FALSE
  /\ progress = <<>>
  /\ status_buf = EmptyText
  /\ last_msg = ""
  /\ cb_error = FALSE
  /\ firmware_len = 0
  /\ firmware_data = FALSE
  /\ ctx = FALSE
  /\ chunk_buffer = FALSE
  /\ device = NoDevice
  /\ usb_open = 0
  /\ usb_claimed = 0
  /\ usb_orphan = FALSE
  /\ elapsed = 0
  /\ devs_left = 0
  /\ last_error = EmptyText
  /\ written = 0
  /\ block_number = 0
  /\ wire = <<>>
  /\ lastWR = NoCall
  /\ call = NoUnit
  /\ call_result = NoResult
  /\ NoSlider

(* ------------------------------------------------------------------ *)
(* dfu_loader_flash: load the image, start libusb                       *)
(* ------------------------------------------------------------------ *)
\* report 0, "Loading firmware file...", load_firmware_file
flash_load ==
  /\ pc = "start"
  /\ report_progress(<<0>>)
  /\ \/ \E e \in LoadFailures :
          /\ set_status(<<MSG_LOADING, e>>)
          /\ pc' = "cleanup"
          /\ UNCHANGED << firmware_len, firmware_data >>
     \/ \E len \in ImageLengths :
          /\ set_status(<<MSG_LOADING>>)
          /\ firmware_len' = len
          /\ firmware_data' = TRUE
          /\ pc' = "init"
  /\ UNCHANGED << unit_vars, variant, status_buf_len, stack, ret, success, ctx,
                  chunk_buffer, device, usb_open, usb_claimed, usb_orphan,
                  elapsed, devs_left, last_error, written, block_number,
                  wire, lastWR >>

\* "Initialising USB...", libusb_init, "Waiting for DFU device...", and the
\* entry of wait_for_stm32_dfu_device
flash_init ==
  /\ pc = "init"
  /\ \/ /\ set_status(<<MSG_INIT, ERR_LIBUSB_INIT>>)
        /\ pc' = "cleanup"
        /\ UNCHANGED << ctx, elapsed, last_error >>
     \/ /\ set_status(<<MSG_INIT, MSG_WAITING>>)
        /\ ctx' = TRUE
        /\ elapsed' = 0
        /\ last_error' = EmptyText
        /\ pc' = "discover"
  /\ UNCHANGED << unit_vars, variant, status_buf_len, stack, ret, success, progress,
                  firmware_len, firmware_data, chunk_buffer, device,
                  usb_open, usb_claimed, usb_orphan, devs_left, written,
                  block_number, wire, lastWR >>


(* ------------------------------------------------------------------ *)
(* Activation records and the request log                               *)
(* ------------------------------------------------------------------ *)
WaitReadyFrame(allow) ==
  [fn |-> "dfu_wait_ready", allow_manifest |-> allow, polls |-> 0,
   clr |-> 0, slept |-> 0, poll |-> 0]
PrepareIdleFrame ==
  [fn |-> "dfu_prepare_idle", phase |-> "first", aborts |-> 0]
DownloadFrame(req) == [fn |-> "dfu_download_block", req |-> req]
EraseRangeFrame(end, seg, page_base) ==
  [fn |-> "dfu_erase_range", end |-> end, seg |-> seg, page_base |-> page_base]

Top == stack[1]
Push(f) == <<f>> \o stack
Pop == Tail(stack)
Running(fn) == stack # <<>> /\ Top.fn = fn
AtFlash(label) == stack = <<>> /\ pc = label

\* one DNLOAD request as it goes on the wire: its block number (wValue),
\* its length (wLength), the command byte of a vendor command (0 for
\* image data), the address a vendor command carries or the chunk
\* address of a data block, the image bytes a data block carries (before
\* padding), the allow_manifest its status poll gets and the payload bytes
\* of a vendor command (the bytes of the image are not modelled).  ABORT and
\* CLRSTATUS requests are counted in the activation record of the call
\* that sends them.
Request(req, block, len, cmd, addr, n, allow, payload) ==
  [req |-> req, block |-> block, len |-> len, cmd |-> cmd, addr |-> addr,
   n |-> n, allow_manifest |-> allow, payload |-> payload,
   \* the result of the control transfer, filled in when it is made: the
   \* libusb error ("" for none) and the number of bytes transferred
   err |-> "", sent |-> 0]

\* uint8_t payload[5] of a vendor command: the command byte and the
\* address, least significant byte first; the first `length' bytes go out
special_command_payload_be(command, address, length) ==
  SubSeq(<< command,
            (address \div 16777216) % 256,
            (address \div 65536) % 256,
            (address \div 256) % 256,
            address % 256 >>, 1, Min(length, 5))
special_command_payload(command, address, length) ==
  SubSeq(<< command,
            address % 256,
            (address \div 256) % 256,
            (address \div 65536) % 256,
            (address \div 16777216) % 256 >>, 1, Min(length, 5))

\* dfu_send_special_command(device, command, address, length, ..., allow):
\* DNLOAD block 0 with min(length, 5) payload bytes
dfu_send_special_command(command, address, length, allow) ==
  Request("DNLOAD", 0, Min(length, 5), command, address, 0, allow,
          special_command_payload(command, address, length))

\* dfu_set_address_pointer: command 0x21 with the address, 5 bytes
dfu_set_address_pointer(address) ==
  dfu_send_special_command(33, address, 5, FALSE)

\* an erase of the first page in place of the mass erase
dfu_mass_erase_one_page ==
  dfu_send_special_command(65, STM32_BASE_ADDRESS, 5, FALSE)

\* dfu_mass_erase: the layout-aware copy sends the command byte alone, the
\* older copy {0x41, 0xFF, 0xFF}
dfu_mass_erase ==
  IF variant = 2 THEN dfu_send_special_command(65, 0, 1, FALSE)
  ELSE Request("DNLOAD", 0, 3, 65, 0, 0, FALSE, <<65, 255, 255>>)

\* the erase-page command dfu_erase_range sends
erase_page_command(page_base) ==
  dfu_send_special_command(65, page_base, 5, FALSE)

IsDnload(e) == e.req = "DNLOAD"
IsSetAddress(e) == IsDnload(e) /\ e.cmd = 33
IsErasePage(e) == IsDnload(e) /\ e.cmd = 65 /\ e.len = 5
IsMassErase(e) == IsDnload(e) /\ e.cmd = 65 /\ e.len # 5
IsData(e) == IsDnload(e) /\ e.cmd = 0 /\ e.n > 0
IsFinal(e) == IsDnload(e) /\ e.cmd = 0 /\ e.n = 0

(* ------------------------------------------------------------------ *)
(* Device discovery                                                     *)
(* ------------------------------------------------------------------ *)
\* one iteration of open_stm32_dfu_device_once's loop over the device
\* list, for a device that does not end in success: the error it writes
\* ("" for none) and what it leaves behind of the handle it opened
open_device_failure(outcome) ==
  CASE outcome = "skip" ->
         [err |-> "", open |-> 0, claimed |-> 0, orphan |-> FALSE]
    [] outcome = "open_access" ->
         [err |-> IF variant = 1 THEN ERR_ACCESS ELSE ERR_OPEN,
          open |-> 0, claimed |-> 0, orphan |-> FALSE]
    [] outcome = "open_fail" ->
         [err |-> ERR_OPEN, open |-> 0, claimed |-> 0, orphan |-> FALSE]
    [] outcome = "no_interface" ->
         \* libusb_open, then libusb_close
         [err |-> ERR_NO_INTERFACE, open |-> 1 - 1, claimed |-> 0,
          orphan |-> FALSE]
    [] outcome = "claim_fail" ->
         [err |-> ERR_CLAIM, open |-> 1 - 1, claimed |-> 0, orphan |-> FALSE]
    [] outcome = "alt_fail" ->
         \* the interface is claimed; the layout-aware copy releases it
         \* before libusb_close, the older copy only closes the handle
         [err |-> IF variant = 1 THEN ERR_CLAIM ELSE ERR_SET_ALT,
          open |-> 1 - 1,
          claimed |-> IF variant = 2 THEN 1 - 1 ELSE 0,
          orphan |-> (variant = 1)]

\* set_status(last_error, sizeof(last_error), status_ctx, ...) inside
\* open_stm32_dfu_device_once: the text goes to last_error and, in the
\* layout-aware copy, to the client's status callback
discovery_error(msg) ==
  /\ last_error' = Truncate(msg, LAST_ERROR_SIZE)
  /\ cb_error' = (cb_error \/ variant = 2)

\* Sleep(100); elapsed += 100
discovery_sleep == elapsed' = elapsed + DISCOVERY_SLEEP_MS

\* wait_for_stm32_dfu_device: the loop test, (older copy) the reset of
\* last_error, and libusb_get_device_list
wait_for_stm32_dfu_device ==
  /\ AtFlash("discover")
  /\ elapsed <= DISCOVERY_TIMEOUT_MS
  /\ \/ /\ discovery_error(ERR_ENUMERATE)
        /\ discovery_sleep
        /\ UNCHANGED << pc, devs_left >>
     \/ \E count \in 0..MaxDevices :
          /\ devs_left' = count
          /\ last_error' = IF variant = 1 THEN EmptyText ELSE last_error
          /\ pc' = "open_once"
          /\ UNCHANGED << cb_error, elapsed >>
  /\ UNCHANGED << unit_vars, variant, status_buf_len, stack, ret, success, progress,
                  status_buf, last_msg, firmware_len, firmware_data, ctx,
                  chunk_buffer, device, usb_open, usb_claimed, usb_orphan,
                  written, block_number, wire, lastWR >>

\* open_stm32_dfu_device_once: the next device of the list.  On success
\* the device is recorded, wait_for_stm32_dfu_device reports the interface
\* and returns, and dfu_loader_flash goes on to "Preparing DFU state..."
\* and calls dfu_prepare_idle, which calls dfu_wait_ready(true); the
\* locals of wait_for_stm32_dfu_device are gone.
open_stm32_dfu_device_once ==
  /\ AtFlash("open_once")
  /\ devs_left > 0
  /\ \E outcome \in DeviceOutcomes :
       IF outcome = "ok"
       THEN \E ts \in TransferSizes,
               layout \in (IF variant = 2 THEN Layouts ELSE {<<>>}) :
              /\ firmware_len <= ts * MaxLen
              /\ device' = [handle |-> TRUE,
                            transfer_size |-> ts,
                            layout_valid |-> (Len(layout) > 0),
                            layout |-> layout,
                            mass_erased |-> FALSE,
                            last_erased_page |->
                              IF variant = 2 THEN NO_PAGE ELSE 0]
              /\ usb_open' = usb_open + 1
              /\ usb_claimed' = usb_claimed + 1
              /\ IF status_buf_len > 0
                 THEN set_status(<<MSG_USING, MSG_PREPARING>>)
                 ELSE set_status(<<MSG_PREPARING>>)
              /\ devs_left' = 0
              /\ elapsed' = 0
              /\ last_error' = EmptyText
              /\ stack' = <<WaitReadyFrame(TRUE), PrepareIdleFrame>>
              /\ pc' = "after_prepare1"
              /\ UNCHANGED usb_orphan
       ELSE LET r == open_device_failure(outcome) IN
              /\ IF r.err # ""
                 THEN discovery_error(r.err)
                 ELSE UNCHANGED << last_error, cb_error >>
              /\ usb_open' = usb_open + r.open
              /\ usb_claimed' = usb_claimed + r.claimed
              /\ usb_orphan' = (usb_orphan \/ r.orphan)
              /\ devs_left' = devs_left - 1
              /\ UNCHANGED << device, status_buf, last_msg, stack, pc,
                              elapsed >>
  /\ UNCHANGED << unit_vars, variant, status_buf_len, ret, success, progress,
                  firmware_len, firmware_data, ctx, chunk_buffer,
                  written, block_number, wire, lastWR >>

\* open_stm32_dfu_device_once found no usable device: it returns false
\* and wait_for_stm32_dfu_device sleeps
open_stm32_dfu_device_none ==
  /\ AtFlash("open_once")
  /\ devs_left = 0
  /\ discovery_sleep
  /\ pc' = "discover"
  /\ UNCHANGED << unit_vars, variant, status_buf_len, stack, ret, success, progress,
                  status_buf, last_msg, cb_error, firmware_len,
                  firmware_data, ctx, chunk_buffer, device, usb_open,
                  usb_claimed, usb_orphan, devs_left, last_error, written,
                  block_number, wire, lastWR >>

\* wait_for_stm32_dfu_device: the budget is spent; the last error, or the
\* not-found message, goes to the caller's buffer when there is one
wait_for_stm32_dfu_device_timeout ==
  /\ AtFlash("discover")
  /\ elapsed > DISCOVERY_TIMEOUT_MS
  /\ IF status_buf_len > 0
     THEN IF last_error.len > 0
          THEN set_status(<<last_error.msg>>)
          ELSE set_status(<<ERR_NOT_FOUND>>)
     ELSE no_status
  /\ pc' = "cleanup"
  /\ UNCHANGED << unit_vars, variant, status_buf_len, stack, ret, success, progress,
                  firmware_len, firmware_data, ctx, chunk_buffer, device,
                  usb_open, usb_claimed, usb_orphan, elapsed, devs_left,
                  last_error, written, block_number, wire, lastWR >>


(* ------------------------------------------------------------------ *)
(* DFU state machine                                                    *)
(* ------------------------------------------------------------------ *)
\* dfu_get_status: the libusb error of the transfer, LIBUSB_ERROR_IO for
\* a reply that is not 6 bytes, LIBUSB_SUCCESS otherwise
dfu_get_status(r) ==
  IF r.err # "" THEN r.err
  ELSE IF r.n # 6 THEN "IO"
  ELSE "SUCCESS"

\* dfu_wait_ready's loop with the dfuERROR case falling into the
\* manifest cases
dfu_wait_ready_step_fallthrough(r, allow_manifest) ==
  LET returns(result, msg, clr) ==
        [done |-> TRUE, result |-> result, msg |-> msg, clr |-> clr,
         sleep |-> 0]
  IN
  IF r.err = "NO_DEVICE" THEN returns(allow_manifest, "", 0)
  ELSE IF r.err # "" \/ r.n # 6 THEN returns(FALSE, ERR_GET_STATUS, 0)
  ELSE IF r.status # 0 THEN returns(FALSE, ERR_DFU_STATUS, 1)
  ELSE IF r.state \in {DFU_STATE_dfuIDLE, DFU_STATE_dfuDNLOAD_IDLE}
       THEN returns(TRUE, "", 0)
  ELSE IF r.state \in {DFU_STATE_dfuMANIFEST_SYNC, DFU_STATE_dfuMANIFEST,
                       DFU_STATE_dfuMANIFEST_WAIT_RESET, DFU_STATE_dfuERROR}
       THEN returns(allow_manifest, "", 0)
  ELSE [done |-> FALSE, result |-> FALSE, msg |-> "", clr |-> 0,
        sleep |-> IF r.poll > 0 THEN r.poll ELSE 5]

\* one iteration of dfu_wait_ready's loop on the GETSTATUS result r:
\* whether the call returns, its result, the message it sets ("" for
\* none), the CLRSTATUS requests it sends and the time it sleeps
\* dfu_wait_ready's loop returning true where it should sleep and poll
\* again
dfu_wait_ready_step_no_wait(r, allow_manifest) ==
  LET step == dfu_wait_ready_step_fallthrough(r, allow_manifest)
  IN IF step.done THEN step
     ELSE [done |-> TRUE, result |-> TRUE, msg |-> "", clr |-> 0,
           sleep |-> 0]

dfu_wait_ready_step(r, allow_manifest) ==
  LET rc == dfu_get_status(r)
      returns(result, msg, clr) ==
        [done |-> TRUE, result |-> result, msg |-> msg, clr |-> clr,
         sleep |-> 0]
  IN
  IF rc = "NO_DEVICE" THEN returns(allow_manifest, "", 0)
  ELSE IF rc # "SUCCESS" THEN returns(FALSE, ERR_GET_STATUS, 0)
  ELSE IF r.status # 0 THEN returns(FALSE, ERR_DFU_STATUS, 1)
  ELSE IF r.state \in {DFU_STATE_dfuIDLE, DFU_STATE_dfuDNLOAD_IDLE}
       THEN returns(TRUE, "", 0)
  ELSE IF r.state \in {DFU_STATE_dfuMANIFEST_SYNC, DFU_STATE_dfuMANIFEST,
                       DFU_STATE_dfuMANIFEST_WAIT_RESET}
       THEN returns(allow_manifest, "", 0)
  ELSE IF r.state = DFU_STATE_dfuERROR
       THEN returns(FALSE, ERR_DFU_ERROR_STATE, 1)
  ELSE [done |-> FALSE, result |-> FALSE, msg |-> "", clr |-> 0,
        sleep |-> IF r.poll > 0 THEN r.poll ELSE 5]

\* dfu_wait_ready: one GETSTATUS, answered from `replies', and what the
\* loop does with its result.  The loop has no counter; the frame counts
\* the polls up to MaxPolls, and a run either stops polling there
\* (capped) or goes on polling with the count left at MaxPolls
dfu_wait_ready_poll(replies, capped) ==
  /\ Running("dfu_wait_ready")
  /\ \E r \in replies :
       LET step == dfu_wait_ready_step(r, Top.allow_manifest) IN
         /\ IF step.msg # "" THEN set_status(<<step.msg>>) ELSE no_status
         /\ IF step.done
            THEN /\ stack' = Pop
                 /\ ret' = step.result
                 /\ lastWR' = [allow_manifest |-> Top.allow_manifest,
                               result |-> step.result,
                               clr |-> Top.clr + step.clr,
                               err |-> r.err, n |-> r.n,
                               status |-> r.status, state |-> r.state]
            ELSE /\ capped => Top.polls < MaxPolls
                 /\ stack' = <<[Top EXCEPT !.polls = Min(@ + 1, MaxPolls),
                                           !.clr = @ + step.clr,
                                           !.slept = step.sleep,
                                           !.poll = r.poll]>> \o Pop
                 /\ UNCHANGED << ret, lastWR >>
  /\ UNCHANGED << unit_vars, variant, status_buf_len, pc, success, progress,
                  firmware_len, firmware_data, ctx, chunk_buffer, device,
                  usb_open, usb_claimed, usb_orphan, elapsed, devs_left,
                  last_error, written, block_number, wire >>

dfu_wait_ready_on(replies) == dfu_wait_ready_poll(replies, TRUE)

dfu_wait_ready == dfu_wait_ready_on(FlashReplies)

\* dfu_prepare_idle retrying for as long as dfu_wait_ready fails
dfu_prepare_idle_retry_always ==
  /\ Running("dfu_prepare_idle")
  /\ IF ~ret
     THEN /\ stack' = <<WaitReadyFrame(TRUE),
                        [Top EXCEPT !.phase = "second", !.aborts = @ + 1]>>
                      \o Pop
          /\ UNCHANGED ret
     ELSE /\ stack' = Pop
          /\ ret' = ret
  /\ UNCHANGED << unit_vars, variant, status_buf_len, pc, success, progress,
                  status_buf, last_msg, cb_error, firmware_len,
                  firmware_data, ctx, chunk_buffer, device, usb_open,
                  usb_claimed, usb_orphan, elapsed, devs_left, last_error,
                  written, block_number, wire, lastWR >>

\* dfu_prepare_idle after a dfu_wait_ready(true) of its own returned: the
\* first one failing is answered by ABORT, Sleep(5) and a second call,
\* whose result is returned
dfu_prepare_idle ==
  /\ Running("dfu_prepare_idle")
  /\ IF Top.phase = "first" /\ ~ret
     THEN /\ stack' = <<WaitReadyFrame(TRUE),
                        [Top EXCEPT !.phase = "second", !.aborts = @ + 1]>>
                      \o Pop
          /\ UNCHANGED ret
     ELSE /\ stack' = Pop
          /\ ret' = ret
  /\ UNCHANGED << unit_vars, variant, status_buf_len, pc, success, progress,
                  status_buf, last_msg, cb_error, firmware_len,
                  firmware_data, ctx, chunk_buffer, device, usb_open,
                  usb_claimed, usb_orphan, elapsed, devs_left, last_error,
                  written, block_number, wire, lastWR >>

\* dfu_download_block going on to dfu_wait_ready after a transfer of
\* fewer bytes than requested
dfu_download_block_step_poll_short(x, length) ==
  IF x.err # "" THEN [poll |-> FALSE, msg |-> ERR_SEND]
  ELSE [poll |-> TRUE, msg |-> ""]

\* what dfu_download_block does with the result x of its DNLOAD transfer:
\* the message it sets and whether it goes on to dfu_wait_ready
dfu_download_block_step(x, length) ==
  IF x.err # "" THEN [poll |-> FALSE, msg |-> ERR_SEND]
  ELSE IF x.n # length THEN [poll |-> FALSE, msg |-> ERR_SEND_SHORT]
  ELSE [poll |-> TRUE, msg |-> ""]

\* dfu_download_block: the DNLOAD control transfer and its result, any
\* one or, with a ready device, the complete one
dfu_download_block_from(ready) ==
  /\ Running("dfu_download_block")
  /\ \E x \in (IF ready THEN ReadyDnload(Top.req.len)
              ELSE DnloadResults(Top.req.len)) :
       LET step == dfu_download_block_step(x, Top.req.len) IN
         /\ wire' = Append(wire, [Top.req EXCEPT !.err = x.err, !.sent = x.n])
         /\ IF step.poll
            THEN /\ stack' = <<WaitReadyFrame(Top.req.allow_manifest)>> \o Pop
                 /\ no_status
                 /\ UNCHANGED ret
            ELSE /\ stack' = Pop
                 /\ ret' = FALSE
                 /\ set_status(<<step.msg>>)
  /\ UNCHANGED << unit_vars, variant, status_buf_len, pc, success, progress,
                  firmware_len, firmware_data, ctx, chunk_buffer, device,
                  usb_open, usb_claimed, usb_orphan, elapsed, devs_left,
                  last_error, written, block_number, lastWR >>

dfu_download_block == dfu_download_block_from(FALSE)

(* ------------------------------------------------------------------ *)
(* Erase planner                                                        *)
(* ------------------------------------------------------------------ *)
\* page_base of dfu_erase_range: the base of the page of `segment' that
\* contains `address'
page_base_of(segment, address) ==
  segment.start
    + ((address - segment.start) \div segment.page_size) * segment.page_size

\* dfu_erase_range's loops run from a position until the next erase-page
\* command, the end of the range or an address in no segment.  A position
\* is the outer loop's test (seg = 0, at `start') or the inner loop's test
\* (in segment seg, at `page_base').  `last' is last_erased_page.
\* dfu_erase_range's test before an erase-page command: the page is not
\* the one erased last
needs_erase_always(last, page_base) == TRUE
needs_erase(last, page_base) == last # page_base

RECURSIVE erase_scan(_, _, _, _, _, _)
erase_scan(layout, end, last, start, seg, page_base) ==
  IF seg = 0
  THEN IF ~(start < end) THEN [act |-> "done", seg |-> 0, page_base |-> 0]
       ELSE LET found == find_segment(layout, start) IN
            IF found = 0
            THEN [act |-> "fail", seg |-> 0, page_base |-> start]
            ELSE erase_scan(layout, end, last, start, found,
                            page_base_of(layout[found], start))
  ELSE IF page_base < layout[seg].end /\ page_base < end
       THEN IF needs_erase(last, page_base)
            THEN [act |-> "erase", seg |-> seg, page_base |-> page_base]
            ELSE erase_scan(layout, end, last, start, seg,
                            page_base + layout[seg].page_size)
       ELSE erase_scan(layout, end, last, layout[seg].end, 0, 0)


\* groups of variables the protocol steps leave alone
caller_vars == << variant, status_buf_len >>
discovery_vars == << elapsed, devs_left, last_error >>
usb_vars == << usb_open, usb_claimed, usb_orphan >>
memory_vars == << firmware_len, firmware_data, ctx, chunk_buffer >>

\* dfu_erase_range after an erase-page command of its own returned: a
\* failed command fails the call; otherwise the page is remembered and
\* the loops run on
dfu_erase_range ==
  /\ Running("dfu_erase_range")
  /\ IF ~ret
     THEN /\ stack' = Pop
          /\ ret' = FALSE
          /\ no_status
          /\ UNCHANGED device
     ELSE LET page == Top.page_base
              scan == erase_scan(device.layout, Top.end, page, 0, Top.seg,
                                 page + device.layout[Top.seg].page_size)
          IN /\ device' = [device EXCEPT !.last_erased_page = page]
             /\ CASE scan.act = "done" ->
                       /\ stack' = Pop
                       /\ ret' = TRUE
                       /\ no_status
                  [] scan.act = "fail" ->
                       /\ stack' = Pop
                       /\ ret' = FALSE
                       /\ set_status(<<ERR_ADDRESS>>)
                  [] scan.act = "erase" ->
                       /\ stack' = <<DownloadFrame(erase_page_command(scan.page_base)),
                                     EraseRangeFrame(Top.end, scan.seg, scan.page_base)>>
                                   \o Pop
                       /\ no_status
                       /\ UNCHANGED ret
  /\ UNCHANGED << unit_vars, caller_vars, discovery_vars, usb_vars, memory_vars, pc,
                  success, progress, written, block_number, wire, lastWR >>

(* ------------------------------------------------------------------ *)
(* dfu_loader_flash: prepare, erase, write, finalize                    *)
(* ------------------------------------------------------------------ *)
\* the first dfu_prepare_idle returned: with a known layout go straight
\* to the base address, otherwise mass erase first
flash_after_prepare ==
  /\ AtFlash("after_prepare1")
  /\ IF ~ret
     THEN /\ pc' = "cleanup"
          /\ no_status
          /\ UNCHANGED << device, progress, stack >>
     ELSE IF variant = 2 /\ device.layout_valid
     THEN /\ device' = [device EXCEPT !.mass_erased = FALSE,
                                      !.last_erased_page = NO_PAGE]
          /\ set_status(<<MSG_SET_ADDRESS>>)
          /\ stack' = <<DownloadFrame(dfu_set_address_pointer(STM32_BASE_ADDRESS))>>
          /\ pc' = "after_setaddr0"
          /\ UNCHANGED progress
     ELSE /\ set_status(<<MSG_MASS_ERASE>>)
          /\ report_progress(<<3>>)
          /\ stack' = <<DownloadFrame(dfu_mass_erase)>>
          /\ pc' = "after_mass_erase"
          /\ UNCHANGED device
  /\ UNCHANGED << unit_vars, caller_vars, discovery_vars, usb_vars, memory_vars, ret,
                  success, written, block_number, wire, lastWR >>

\* dfu_mass_erase returned: dfu_prepare_idle again
flash_after_mass_erase ==
  /\ AtFlash("after_mass_erase")
  /\ IF ~ret
     THEN /\ pc' = "cleanup"
          /\ UNCHANGED << device, stack >>
     ELSE /\ device' = IF variant = 2
                       THEN [device EXCEPT !.mass_erased = TRUE]
                       ELSE device
          /\ stack' = <<WaitReadyFrame(TRUE), PrepareIdleFrame>>
          /\ pc' = "after_prepare2"
  /\ no_status
  /\ UNCHANGED << unit_vars, caller_vars, discovery_vars, usb_vars, memory_vars, ret,
                  success, progress, written, block_number, wire, lastWR >>

\* the second dfu_prepare_idle returned: set the base address
flash_after_prepare2 ==
  /\ AtFlash("after_prepare2")
  /\ IF ~ret
     THEN /\ pc' = "cleanup"
          /\ no_status
          /\ UNCHANGED << device, stack >>
     ELSE /\ device' = IF variant = 2
                       THEN [device EXCEPT !.last_erased_page = NO_PAGE]
                       ELSE device
          /\ set_status(<<MSG_SET_ADDRESS>>)
          /\ stack' = <<DownloadFrame(dfu_set_address_pointer(STM32_BASE_ADDRESS))>>
          /\ pc' = "after_setaddr0"
  /\ UNCHANGED << unit_vars, caller_vars, discovery_vars, usb_vars, memory_vars, ret,
                  success, progress, written, block_number, wire, lastWR >>

\* percent of the first progress report of the write phase
write_base_percent ==
  IF variant = 1 THEN 6 ELSE IF device.layout_valid THEN 6 ELSE 5

\* the base address is set: report, "Writing firmware...", (layout-aware
\* copy) allocate the transfer buffer, and enter the write loop
flash_after_set_base ==
  /\ AtFlash("after_setaddr0")
  /\ IF ~ret
     THEN /\ pc' = "cleanup"
          /\ no_status
          /\ UNCHANGED << progress, chunk_buffer, written, block_number >>
     ELSE /\ report_progress(<<write_base_percent>>)
          /\ written' = 0
          /\ block_number' = IF variant = 1 THEN 2 ELSE block_number
          /\ \/ /\ variant = 2
                /\ set_status(<<MSG_WRITING, ERR_CHUNK_MEM>>)
                /\ pc' = "cleanup"
                /\ UNCHANGED chunk_buffer
             \/ /\ set_status(<<MSG_WRITING>>)
                /\ chunk_buffer' = (variant = 2)
                /\ pc' = "loop"
  /\ UNCHANGED << unit_vars, caller_vars, discovery_vars, usb_vars, firmware_len,
                  firmware_data, ctx, ret, success, device, stack, wire,
                  lastWR >>


\* the chunk the write loop plans at the current write position: its
\* address, the segment holding it (0: none, or layout unknown) and its
\* size -- min(remaining, transfer_size), cut at the segment's end
chunk_plan_full ==
  [address |-> STM32_BASE_ADDRESS + written,
   segment |-> IF device.layout_valid
               THEN find_segment(device.layout, STM32_BASE_ADDRESS + written)
               ELSE 0,
   size |-> device.transfer_size]
chunk_plan_end_inclusive ==
  LET remaining == firmware_len - written
      chunk_size == IF remaining > device.transfer_size
                    THEN device.transfer_size ELSE remaining
      chunk_address == STM32_BASE_ADDRESS + written
      segment == IF device.layout_valid
                 THEN find_segment(device.layout, chunk_address) ELSE 0
      seg_remaining == IF segment = 0 THEN 0
                       ELSE device.layout[segment].end - 1 - chunk_address
  IN [address |-> chunk_address,
      segment |-> segment,
      size |-> IF segment # 0 /\ seg_remaining < chunk_size
               THEN seg_remaining ELSE chunk_size]
chunk_plan_unclamped ==
  LET remaining == firmware_len - written
      chunk_address == STM32_BASE_ADDRESS + written
  IN [address |-> chunk_address,
      segment |-> IF device.layout_valid
                  THEN find_segment(device.layout, chunk_address) ELSE 0,
      size |-> IF remaining > device.transfer_size
               THEN device.transfer_size ELSE remaining]
chunk_plan ==
  LET remaining == firmware_len - written
      chunk_size == IF remaining > device.transfer_size
                    THEN device.transfer_size ELSE remaining
      chunk_address == STM32_BASE_ADDRESS + written
      segment == IF device.layout_valid
                 THEN find_segment(device.layout, chunk_address) ELSE 0
      seg_remaining == IF segment = 0 THEN 0
                       ELSE device.layout[segment].end - chunk_address
  IN [address |-> chunk_address,
      segment |-> segment,
      size |-> IF segment # 0 /\ seg_remaining < chunk_size
               THEN seg_remaining ELSE chunk_size]

\* the data block of a chunk: the layout-aware copy pads an odd chunk
\* with 0xFF to an even length, passes the length as a uint16_t and uses
\* block number 2; the older copy sends the chunk at block_number
data_block(chunk) ==
  IF variant = 2
  THEN LET aligned_len == IF chunk.size % 2 = 1 THEN chunk.size + 1
                          ELSE chunk.size
       IN Request("DNLOAD", 2, aligned_len % UINT16_MOD, 0, chunk.address,
                  chunk.size, FALSE, <<>>)
  ELSE Request("DNLOAD", block_number, chunk.size % UINT16_MOD, 0,
               chunk.address, chunk.size, FALSE, <<>>)

\* the zero-length DNLOAD that ends the transfer
final_block ==
  Request("DNLOAD", IF variant = 2 THEN 2 ELSE 0, 0, 0, 0, 0, TRUE, <<>>)

\* the write loop's test and the start of one iteration: segment lookup,
\* dfu_erase_range up to its first erase-page command, else the chunk's
\* set-address-pointer (older copy: the data block itself); after the
\* last chunk, the final block
flash_write_loop ==
  /\ AtFlash("loop")
  /\ IF ~(written < firmware_len)
     THEN /\ stack' = <<DownloadFrame(final_block)>>
          /\ pc' = "after_final"
          /\ no_status
     ELSE LET chunk == chunk_plan IN
          IF variant = 1
          THEN /\ stack' = <<DownloadFrame(data_block(chunk))>>
               /\ pc' = "after_data"
               /\ no_status
          ELSE IF device.layout_valid /\ chunk.segment = 0
          THEN /\ set_status(<<ERR_ADDRESS>>)
               /\ pc' = "cleanup"
               /\ UNCHANGED stack
          ELSE IF ~device.mass_erased /\ chunk.segment # 0
          THEN LET scan == erase_scan(device.layout,
                                      chunk.address + chunk.size,
                                      device.last_erased_page,
                                      chunk.address, 0, 0)
               IN CASE scan.act = "done" ->
                         /\ stack' = <<DownloadFrame(dfu_set_address_pointer(chunk.address))>>
                         /\ pc' = "after_setaddr"
                         /\ no_status
                    [] scan.act = "fail" ->
                         /\ set_status(<<ERR_ADDRESS>>)
                         /\ pc' = "cleanup"
                         /\ UNCHANGED stack
                    [] scan.act = "erase" ->
                         /\ stack' = <<DownloadFrame(erase_page_command(scan.page_base)),
                                       EraseRangeFrame(chunk.address + chunk.size,
                                                       scan.seg, scan.page_base)>>
                         /\ pc' = "after_erase"
                         /\ no_status
          ELSE /\ stack' = <<DownloadFrame(dfu_set_address_pointer(chunk.address))>>
               /\ pc' = "after_setaddr"
               /\ no_status
  /\ UNCHANGED << unit_vars, caller_vars, discovery_vars, usb_vars, memory_vars, ret,
                  success, progress, device, written, block_number, wire,
                  lastWR >>

\* dfu_erase_range returned: set the address pointer to the chunk
flash_after_erase ==
  /\ AtFlash("after_erase")
  /\ IF ~ret
     THEN /\ pc' = "cleanup"
          /\ UNCHANGED stack
     ELSE /\ stack' = <<DownloadFrame(dfu_set_address_pointer(chunk_plan.address))>>
          /\ pc' = "after_setaddr"
  /\ no_status
  /\ UNCHANGED << unit_vars, caller_vars, discovery_vars, usb_vars, memory_vars, ret,
                  success, progress, device, written, block_number, wire,
                  lastWR >>

\* the chunk's address pointer is set: send the data block
flash_after_set_address ==
  /\ AtFlash("after_setaddr")
  /\ IF ~ret
     THEN /\ pc' = "cleanup"
          /\ UNCHANGED stack
     ELSE /\ stack' = <<DownloadFrame(data_block(chunk_plan))>>
          /\ pc' = "after_data"
  /\ no_status
  /\ UNCHANGED << unit_vars, caller_vars, discovery_vars, usb_vars, memory_vars, ret,
                  success, progress, device, written, block_number, wire,
                  lastWR >>

\* the percentage without its cap
write_percent_uncapped(bytes) ==
  write_base_percent + (bytes * 90) \div firmware_len

\* percent reported after `bytes' of the image are written
write_percent(bytes) ==
  LET percent == write_base_percent + (bytes * 90) \div firmware_len
  IN IF percent > 95 THEN 95 ELSE percent

\* the data block returned: on failure the layout-aware copy sets a
\* message of its own; on success the write position advances by the
\* chunk's unpadded size and progress is reported
flash_after_data ==
  /\ AtFlash("after_data")
  /\ IF ~ret
     THEN /\ pc' = "cleanup"
          /\ IF variant = 2 THEN set_status(<<ERR_WRITE>>) ELSE no_status
          /\ UNCHANGED << written, block_number, progress >>
     ELSE /\ written' = written + chunk_plan.size
          /\ block_number' = IF variant = 1
                             THEN (block_number + 1) % UINT16_MOD
                             ELSE block_number
          /\ report_progress(<<write_percent(written + chunk_plan.size)>>)
          /\ pc' = "loop"
          /\ no_status
  /\ UNCHANGED << unit_vars, caller_vars, discovery_vars, usb_vars, memory_vars, ret,
                  success, device, stack, wire, lastWR >>

\* the final block returned: 99, the completion message, success
flash_after_final ==
  /\ AtFlash("after_final")
  /\ IF ~ret
     THEN /\ no_status
          /\ UNCHANGED << progress, success >>
     ELSE /\ report_progress(<<99>>)
          /\ set_status(<<MSG_DONE>>)
          /\ success' = TRUE
  /\ pc' = "cleanup"
  /\ UNCHANGED << unit_vars, caller_vars, discovery_vars, usb_vars, memory_vars, ret,
                  device, stack, written, block_number, wire, lastWR >>

\* release_device: libusb_release_interface and libusb_close when the
\* device holds a handle
release_device ==
  IF device.handle
  THEN /\ usb_claimed' = usb_claimed - 1
       /\ usb_open' = usb_open - 1
       /\ device' = [device EXCEPT !.handle = FALSE]
  ELSE UNCHANGED << usb_claimed, usb_open, device >>

\* what the cleanup label reports: 100 on success, nothing otherwise
cleanup_progress_always == <<100>>
cleanup_progress == IF success THEN <<100>> ELSE <<>>

\* the cleanup label: 100 on success, the buffers, the device, libusb,
\* and the fallback message for a failure that left the buffer empty
flash_cleanup ==
  /\ AtFlash("cleanup")
  /\ report_progress(cleanup_progress)
  /\ chunk_buffer' = FALSE
  /\ release_device
  /\ ctx' = FALSE
  /\ firmware_data' = FALSE
  /\ IF ~success /\ status_buf_len > 0 /\ status_buf.len = 0
     THEN set_status(<<MSG_UNKNOWN>>)
     ELSE no_status
  /\ pc' = "done"
  /\ UNCHANGED << unit_vars, caller_vars, discovery_vars, usb_orphan, firmware_len,
                  ret, success, stack, written, block_number, wire, lastWR >>

(* ------------------------------------------------------------------ *)
(* Specification                                                        *)
(* ------------------------------------------------------------------ *)
Next ==
  \/ flash_load
  \/ flash_init
  \/ wait_for_stm32_dfu_device
  \/ open_stm32_dfu_device_once
  \/ open_stm32_dfu_device_none
  \/ wait_for_stm32_dfu_device_timeout
  \/ dfu_wait_ready
  \/ dfu_prepare_idle
  \/ dfu_download_block
  \/ dfu_erase_range
  \/ flash_after_prepare
  \/ flash_after_mass_erase
  \/ flash_after_prepare2
  \/ flash_after_set_base
  \/ flash_write_loop
  \/ flash_after_erase
  \/ flash_after_set_address
  \/ flash_after_data
  \/ flash_after_final
  \/ flash_cleanup

Spec == Init /\ [][Next]_vars


(* ------------------------------------------------------------------ *)
(* Properties of a flash run                                            *)
(* ------------------------------------------------------------------ *)
Returned == pc = "done"
DataBlocks == SelectSeq(wire, IsData)
ErasePages == SelectSeq(wire, IsErasePage)
RECURSIVE Sum(_, _)
Sum(f, n) == IF n = 0 THEN 0 ELSE f[n] + Sum(f, n - 1)
CeilDiv(a, b) == (a + b - 1) \div b

\* C1: the percentages the progress callback receives never decrease, and
\* 100 is among them exactly when the run has returned success
C1_ProgressMonotone ==
  /\ \A i \in 1..Len(progress), j \in 1..Len(progress) :
       i < j => progress[i] <= progress[j]
  /\ (\E i \in 1..Len(progress) : progress[i] = 100) <=> (Returned /\ success)

C1_Witness ==
  /\ Returned /\ success
  /\ Len(progress) >= 6
  /\ progress[Len(progress)] = 100

\* C2: when the run has returned, and whenever discovery is between two
\* attempts, no handle is open, no interface is claimed -- none was left
\* claimed by a handle closed without release -- and at the return the
\* USB context is exited and the image and transfer buffers are freed
C2_AllReleased ==
  /\ (Returned \/ AtFlash("discover")) =>
       usb_open = 0 /\ usb_claimed = 0 /\ ~usb_orphan
  /\ Returned => ~device.handle /\ ~ctx /\ ~firmware_data /\ ~chunk_buffer

C5_LastMessageIsError ==
  (Returned /\ ~success) =>
    /\ last_msg \in ErrorMessages \cup {MSG_UNKNOWN}
    /\ last_msg \notin PhaseMessages

\* a step of dfu_loader_flash has failed: the call it made has returned
\* FALSE to it (or to dfu_erase_range, or dfu_prepare_idle's second
\* dfu_wait_ready has), or the run is on its way out without success
AfterLabels ==
  {"after_prepare1", "after_mass_erase", "after_prepare2", "after_setaddr0",
   "after_erase", "after_setaddr", "after_data", "after_final"}
StepFailed ==
  \/ pc \in {"cleanup", "done"} /\ ~success
  \/ stack = <<>> /\ pc \in AfterLabels /\ ~ret
  \/ Running("dfu_erase_range") /\ ~ret
  \/ Running("dfu_prepare_idle") /\ Top.phase = "second" /\ ~ret

\* the ABORT requests of the dfu_prepare_idle call in progress, if any
PrepareAborts ==
  IF stack # <<>> /\ stack[Len(stack)].fn = "dfu_prepare_idle"
  THEN stack[Len(stack)].aborts
  ELSE 0

\* C6: once a step has failed the run stays failed and sends no further
\* DNLOAD; an ABORT is sent only by dfu_prepare_idle, after its first
\* dfu_wait_ready failed, is followed by one more dfu_wait_ready(true),
\* and is sent at most once per call
C6_FailuresTerminal ==
  /\ [][StepFailed => (StepFailed' /\ wire' = wire)]_vars
  /\ [][PrepareAborts' > PrepareAborts =>
          /\ Running("dfu_prepare_idle") /\ Top.phase = "first" /\ ~ret
          /\ PrepareAborts = 0
          /\ stack'[1] = WaitReadyFrame(TRUE)]_vars
  /\ [](PrepareAborts <= 1)

C6_Witness ==
  /\ Returned /\ ~success
  /\ Len(DataBlocks) = 1
  /\ written = 0
  /\ firmware_len > device.transfer_size
  /\ last_msg \in {ERR_SEND, ERR_WRITE}

\* address lies in some declared segment (start inclusive, end exclusive)
InSomeSegment(layout, address) ==
  \E i \in 1..Len(layout) :
    layout[i].start <= address /\ address < layout[i].end

\* the write loop has a next chunk and its start address is in no segment
NextChunkOutside ==
  /\ device.layout_valid
  /\ chunk_buffer
  /\ written < firmware_len
  /\ ~InSomeSegment(device.layout, STM32_BASE_ADDRESS + written)

\* the requests on the wire that are for address a: a set-address-pointer
\* to it, an erase of it, a data block that covers it
ForAddress(e, a) ==
  \/ (IsSetAddress(e) \/ IsErasePage(e)) /\ e.addr = a
  \/ IsData(e) /\ e.addr <= a /\ a < e.addr + e.n

\* C7 as stated: known layout, next chunk's start address in no segment:
\* the run fails with the address error and no erase, set-address-pointer
\* or data block has been issued for that address
C7_NothingForOutsideAddress ==
  NextChunkOutside =>
    /\ stack = <<>> /\ pc \in {"loop", "cleanup"}
    /\ pc = "cleanup" => ~success /\ last_msg = ERR_ADDRESS
    /\ \A i \in 1..Len(wire) :
         ~ForAddress(wire[i], STM32_BASE_ADDRESS + written)

\* C7 amended: known layout, next chunk's start address in no segment:
\* the run fails with the address error and no erase or data block has
\* been issued for that address, and no set-address-pointer other than
\* the one for the base address sent before the write loop
C7_OutsideAddressFails ==
  NextChunkOutside =>
    /\ stack = <<>> /\ pc \in {"loop", "cleanup"}
    /\ pc = "cleanup" => ~success /\ last_msg = ERR_ADDRESS
    /\ \A i \in 1..Len(wire) :
         ForAddress(wire[i], STM32_BASE_ADDRESS + written) =>
           /\ i = 1
           /\ IsSetAddress(wire[i])
           /\ written = 0

C7_Witness ==
  /\ NextChunkOutside
  /\ pc = "cleanup"
  /\ written > 0
  /\ \E i \in 1..Len(device.layout) :
       device.layout[i].end = STM32_BASE_ADDRESS + written
  /\ last_msg = ERR_ADDRESS

\* C8: no two consecutive erase-page commands are for the same page, and
\* an erase-page command about to be sent is never for the page erased
\* last
C8_NoRepeatedErase ==
  /\ \A i \in 1..Len(ErasePages) - 1 :
       ErasePages[i].addr # ErasePages[i + 1].addr
  /\ (Running("dfu_download_block") /\ IsErasePage(Top.req)) =>
       Top.req.addr # device.last_erased_page

\* two chunks written one after the other into the page erased for the
\* first, with no erase command for the second
C8_Witness ==
  /\ device.layout_valid
  /\ Len(ErasePages) = 1
  /\ Len(DataBlocks) = 2
  /\ device.last_erased_page = ErasePages[1].addr
  /\ DataBlocks[1].addr >= ErasePages[1].addr
  /\ DataBlocks[2].addr > DataBlocks[1].addr
  /\ find_segment(device.layout, DataBlocks[1].addr)
       = find_segment(device.layout, DataBlocks[2].addr)

(* ------------------------------------------------------------------ *)
(* dfu_wait_ready on its own, against every GETSTATUS result            *)
(* ------------------------------------------------------------------ *)
InitWaitReady ==
  /\ variant \in {1, 2}
  /\ status_buf_len \in StatusBufLens
  /\ pc = "wait_ready"
  /\ \E allow_manifest \in BOOLEAN : stack = <<WaitReadyFrame(allow_manifest)>>
  /\ ret = FALSE
  /\ success = FALSE
  /\ progress = <<>>
  /\ status_buf = EmptyText
  /\ last_msg = ""
  /\ cb_error = FALSE
  /\ firmware_len = 0
  /\ firmware_data = FALSE
  /\ ctx = TRUE
  /\ chunk_buffer = FALSE
  /\ device = [NoDevice EXCEPT !.handle = TRUE, !.transfer_size = 1]
  /\ usb_open = 1
  /\ usb_claimed = 1
  /\ usb_orphan = FALSE
  /\ elapsed = 0
  /\ devs_left = 0
  /\ last_error = ""
  /\ written = 0
  /\ block_number = 0
  /\ wire = <<>>
  /\ lastWR = NoCall
  /\ call = NoUnit
  /\ call_result = NoResult
  /\ NoSlider

dfu_wait_ready_any == dfu_wait_ready_on(GetStatusResults)

NextWaitReady == dfu_wait_ready_any

SpecWaitReady == InitWaitReady /\ [][NextWaitReady]_vars

\* a dfu_wait_ready call has returned on a GETSTATUS reply of 6 bytes
ReturnedOnReply == lastWR.err = "" /\ lastWR.n = 6

\* C9: dfu_wait_ready(false) that returns on a reply with state dfuERROR,
\* whatever the status byte, returns failure and has sent exactly one
\* CLRSTATUS
C9_ErrorStateClearedOnce ==
  (ReturnedOnReply /\ ~lastWR.allow_manifest
     /\ lastWR.state = DFU_STATE_dfuERROR) =>
    ~lastWR.result /\ lastWR.clr = 1

C9_Witness ==
  /\ ReturnedOnReply /\ ~lastWR.allow_manifest
  /\ lastWR.state = DFU_STATE_dfuERROR
  /\ lastWR.status = 0
  /\ lastWR.clr = 1
  /\ last_msg = ERR_DFU_ERROR_STATE

\* what the decisive GETSTATUS outcome w should make dfu_wait_ready return
SuccessOutcome(w) ==
  \/ w.err = "" /\ w.n = 6 /\ w.status = 0
       /\ w.state \in {DFU_STATE_dfuIDLE, DFU_STATE_dfuDNLOAD_IDLE}
  \/ w.allow_manifest /\ w.err = "NO_DEVICE"
  \/ w.allow_manifest /\ w.err = "" /\ w.n = 6 /\ w.status = 0
       /\ w.state \in {DFU_STATE_dfuMANIFEST_SYNC, DFU_STATE_dfuMANIFEST,
                       DFU_STATE_dfuMANIFEST_WAIT_RESET}

\* C10: dfu_wait_ready returns success exactly on status 0 with dfuIDLE or
\* dfuDNLOAD_IDLE or, with allow_manifest only, on the device vanishing or
\* status 0 with a manifest state; it returns on no other state with
\* status 0 than these and dfuERROR
C10_SuccessExactly ==
  lastWR # NoCall =>
    /\ lastWR.result <=> SuccessOutcome(lastWR)
    /\ (ReturnedOnReply /\ lastWR.status = 0) =>
         lastWR.state \in {DFU_STATE_dfuIDLE, DFU_STATE_dfuDNLOAD_IDLE,
                           DFU_STATE_dfuMANIFEST_SYNC, DFU_STATE_dfuMANIFEST,
                           DFU_STATE_dfuMANIFEST_WAIT_RESET,
                           DFU_STATE_dfuERROR}

C10_Witness ==
  /\ lastWR.allow_manifest
  /\ lastWR.err = "NO_DEVICE"
  /\ lastWR.result
  /\ stack = <<>>

(* ------------------------------------------------------------------ *)
(* Further properties of a flash run                                    *)
(* ------------------------------------------------------------------ *)
\* the dfu_prepare_idle call in progress, itself running or waiting for
\* the dfu_wait_ready it called
InPrepareIdle == stack # <<>> /\ stack[Len(stack)].fn = "dfu_prepare_idle"

\* C11: dfu_prepare_idle calls only dfu_wait_ready(true); it has sent no
\* ABORT while its first call is out or has succeeded and exactly one
\* once the second is out; it returns after the first call only with
\* success and otherwise after the second, with that call's result
C11_PrepareIdleOneRetry ==
  /\ [](InPrepareIdle =>
          /\ Len(stack) <= 2
          /\ Len(stack) = 2 =>
               stack[1].fn = "dfu_wait_ready" /\ stack[1].allow_manifest
          /\ stack[Len(stack)].aborts
               = (IF stack[Len(stack)].phase = "first" THEN 0 ELSE 1))
  /\ [][(Running("dfu_prepare_idle") /\ stack' = Pop) =>
          /\ ret' = lastWR.result
          /\ lastWR.allow_manifest
          /\ Top.phase = "first" => ret' /\ Top.aborts = 0
          /\ Top.phase = "second" => Top.aborts = 1]_vars
  /\ [][(Running("dfu_prepare_idle") /\ stack' # Pop /\ stack' # stack) =>
          /\ Top.phase = "first" /\ ~ret
          /\ stack' = <<WaitReadyFrame(TRUE),
                        [Top EXCEPT !.phase = "second", !.aborts = 1]>>
                      \o Pop]_vars

\* the second dfu_wait_ready of a dfu_prepare_idle, after its one ABORT,
\* has succeeded
C11_Witness ==
  /\ Running("dfu_prepare_idle")
  /\ Top.phase = "second"
  /\ Top.aborts = 1
  /\ ret
  /\ lastWR.result

\* a DNLOAD with no payload on the wire
IsZeroLength(e) == IsDnload(e) /\ e.len = 0

\* image bytes carried by the data blocks among the first k requests
RECURSIVE BytesSent(_)
BytesSent(k) ==
  IF k = 0 THEN 0
  ELSE BytesSent(k - 1) + (IF wire[k].cmd = 0 THEN wire[k].n ELSE 0)

\* C12: at most one zero-length DNLOAD is sent, none while image bytes
\* remain unsent, and only the finalize DNLOAD is polled with
\* allow_manifest
C12_ZeroLengthOnlyAtEnd ==
  /\ Cardinality({i \in 1..Len(wire) : IsZeroLength(wire[i])}) <= 1
  /\ \A i \in 1..Len(wire) :
       /\ IsZeroLength(wire[i]) =>
            wire[i].n = 0 /\ BytesSent(i - 1) = firmware_len
       /\ wire[i].allow_manifest => IsZeroLength(wire[i]) /\ wire[i].cmd = 0

\* C13: the zero-length DNLOAD that ends the transfer carries a nonzero
\* block number
C13_FinalBlockNumberNonzero ==
  \A i \in 1..Len(wire) : IsFinal(wire[i]) => wire[i].block # 0

(* ------------------------------------------------------------------ *)
(* The write loop on its own, entered at the top of any iteration       *)
(* ------------------------------------------------------------------ *)
\* chunks already written when the loop is observed: none, or so many
\* that the older copy's uint16_t block_number is about to wrap
LoopStarts == {0} \cup ((UINT16_MOD - 4)..(UINT16_MOD - 2))

\* the state at `while (written < firmware_len)' after k chunks of one
\* byte were written by a device of transfer size 1 with unknown layout:
\* block_number is 2 incremented k times as a uint16_t; progress and
\* wire record what is reported and sent from here on
InitWriteLoop ==
  /\ variant \in {1, 2}
  /\ status_buf_len \in StatusBufLens
  /\ pc = "loop"
  /\ stack = <<>>
  /\ ret = TRUE
  /\ success = FALSE
  /\ progress = <<>>
  /\ status_buf = set_status_buffer(EmptyText, status_buf_len, MSG_WRITING)
  /\ last_msg = MSG_WRITING
  /\ cb_error = FALSE
  /\ \E k \in LoopStarts :
       /\ written = k
       /\ firmware_len \in {k + 1, k + 2}
       /\ block_number = (IF variant = 1 THEN (2 + k) % UINT16_MOD ELSE 0)
  /\ firmware_data = TRUE
  /\ ctx = TRUE
  /\ chunk_buffer = (variant = 2)
  /\ device = [handle |-> TRUE, transfer_size |-> 1, layout_valid |-> FALSE,
               layout |-> <<>>, mass_erased |-> (variant = 2),
               last_erased_page |-> NO_PAGE]
  /\ usb_open = 1
  /\ usb_claimed = 1
  /\ usb_orphan = FALSE
  /\ elapsed = 0
  /\ devs_left = 0
  /\ last_error = ""
  /\ wire = <<>>
  /\ lastWR = NoCall
  /\ call = NoUnit
  /\ call_result = NoResult
  /\ NoSlider

NextWriteLoop ==
  \/ flash_write_loop
  \/ flash_after_set_address
  \/ flash_after_data
  \/ flash_after_final
  \/ flash_cleanup
  \/ dfu_download_block
  \/ dfu_wait_ready

SpecWriteLoop == InitWriteLoop /\ [][NextWriteLoop]_vars

\* C14: every DNLOAD that carries image data has a block number of at
\* least 2, so block number 0 never carries image data
C14_DataBlockNumbers ==
  \A i \in 1..Len(wire) : IsData(wire[i]) => wire[i].block >= 2

\* dfu_loader_flash hands a request satisfying P to dfu_download_block
FlashSends(P(_)) ==
  /\ stack = <<>>
  /\ Len(stack') = 1
  /\ stack'[1].fn = "dfu_download_block"
  /\ P(stack'[1].req)

\* the last dfu_wait_ready that returned was a successful
\* dfu_wait_ready(true), as dfu_prepare_idle calls it
PreparedIdle == lastWR.allow_manifest /\ lastWR.result

\* the erase-page command wire[i] is for a page that the data block
\* wire[j] writes into
ErasedForBlock(i, j) ==
  \E s \in 1..Len(device.layout) :
    /\ device.layout[s].start <= wire[i].addr
    /\ wire[i].addr < device.layout[s].end
    /\ wire[j].addr < wire[i].addr + device.layout[s].page_size
    /\ wire[i].addr < wire[j].addr + wire[j].n

\* C15: known layout: no mass erase, and every erase-page command is for
\* a page of the next data block sent; unknown layout: no erase-page
\* command, the first DNLOAD of the run is the one mass erase, it is sent
\* right after a successful dfu_prepare_idle, its success is followed by
\* dfu_prepare_idle, and the DNLOAD after it is a set-address-pointer
\* sent after that dfu_prepare_idle succeeded
C15_EraseStrategy ==
  /\ [](device.layout_valid =>
          /\ \A i \in 1..Len(wire) : ~IsMassErase(wire[i])
          /\ \A i \in 1..Len(wire), j \in 1..Len(wire) :
               (/\ IsErasePage(wire[i]) /\ IsData(wire[j]) /\ i < j
                /\ \A k \in (i + 1)..(j - 1) : ~IsData(wire[k]))
               => ErasedForBlock(i, j))
  /\ [](~device.layout_valid =>
          /\ \A i \in 1..Len(wire) :
               /\ ~IsErasePage(wire[i])
               /\ IsMassErase(wire[i]) <=> i = 1)
  /\ [][FlashSends(IsMassErase) =>
          wire = <<>> /\ ~device.layout_valid /\ PreparedIdle]_vars
  /\ [][(AtFlash("after_mass_erase") /\ ret) =>
          stack' = <<WaitReadyFrame(TRUE), PrepareIdleFrame>>]_vars
  /\ [][(FlashSends(IsDnload) /\ Len(wire) = 1 /\ IsMassErase(wire[1])) =>
          IsSetAddress(stack'[1].req) /\ PreparedIdle]_vars

\* a run with unknown layout has sent its mass erase, prepared the device
\* again and written a data block
C15_Witness ==
  /\ ~device.layout_valid
  /\ Len(wire) >= 3
  /\ IsMassErase(wire[1])
  /\ IsSetAddress(wire[2])
  /\ IsData(wire[Len(wire)])
  /\ ret

\* C16: every data block is directly preceded on the wire by a
\* set-address-pointer command for its own start address, which is
\* 0x08000000 plus the image bytes carried by the data blocks before it
C16_AddressSetBeforeEachBlock ==
  \A j \in 1..Len(wire) :
    IsData(wire[j]) =>
      /\ j > 1
      /\ IsSetAddress(wire[j - 1])
      /\ wire[j - 1].addr = wire[j].addr
      /\ wire[j].addr = STM32_BASE_ADDRESS + BytesSent(j - 1)

\* C17: with a known layout every data block starts in a segment and
\* carries min(remaining bytes, transfer size, segment end - start
\* address) image bytes, so it ends at or before that segment's end
C17_ChunkClamped ==
  device.layout_valid =>
    \A j \in 1..Len(wire) :
      IsData(wire[j]) =>
        \E s \in 1..Len(device.layout) :
          LET seg == device.layout[s]
              start == wire[j].addr
              remaining == firmware_len - (start - STM32_BASE_ADDRESS)
          IN /\ seg.start <= start /\ start < seg.end
             /\ wire[j].n = Min(Min(remaining, device.transfer_size),
                                seg.end - start)
             /\ start + wire[j].n <= seg.end

\* a data block cut short by the end of its segment
C17_Witness ==
  /\ device.layout_valid
  /\ \E j \in 1..Len(wire), s \in 1..Len(device.layout) :
       /\ IsData(wire[j])
       /\ wire[j].addr + wire[j].n = device.layout[s].end
       /\ wire[j].n < device.transfer_size
       /\ wire[j].n < firmware_len - (wire[j].addr - STM32_BASE_ADDRESS)

\* C18: a data block of n image bytes has a payload of n bytes when n is
\* even and n + 1 when n is odd, and starts where the image bytes of the
\* blocks before it end (the cursor advanced by the unpadded lengths)
C18_PaddedToEven ==
  \A j \in 1..Len(wire) :
    IsData(wire[j]) =>
      /\ wire[j].len = (IF wire[j].n % 2 = 0 THEN wire[j].n
                        ELSE wire[j].n + 1)
      /\ \A i \in 1..(j - 1) :
           (IsData(wire[i]) /\ \A k \in (i + 1)..(j - 1) : ~IsData(wire[k]))
           => wire[j].addr = wire[i].addr + wire[i].n

\* C19: no DNLOAD payload of the write loop, that is none that carries
\* image data, is longer than the negotiated transfer size
C19_PayloadWithinTransferSize ==
  \A i \in 1..Len(wire) :
    IsData(wire[i]) => wire[i].len <= device.transfer_size

\* the zero-length finalize DNLOAD was sent and its status poll returned
\* success
FinalizeSucceeded ==
  /\ wire # <<>>
  /\ IsFinal(wire[Len(wire)])
  /\ lastWR.allow_manifest
  /\ lastWR.result

\* C20: the progress sequence starts with 0, continues with 3 when the
\* layout is unknown, holds no value above 95 before the finalize DNLOAD
\* succeeded, holds 99 at most once, and ends 99, 100 in a successful
\* run; a 3000-byte image at transfer size 1024 with unknown layout goes
\* out as data blocks of 1024, 1024 and 952 image bytes and the finalize
\* block
C20_ProgressSequence ==
  /\ progress # <<>> => progress[1] = 0
  /\ (~device.layout_valid /\ Len(progress) >= 2) => progress[2] = 3
  /\ \A i \in 1..Len(progress) : progress[i] > 95 => FinalizeSucceeded
  /\ Cardinality({i \in 1..Len(progress) : progress[i] = 99}) <= 1
  /\ (Returned /\ success) =>
       /\ Len(progress) >= 2
       /\ progress[Len(progress) - 1] = 99
       /\ progress[Len(progress)] = 100
  /\ (/\ Returned /\ success /\ ~device.layout_valid
      /\ firmware_len = 3000 /\ device.transfer_size = 1024) =>
       /\ [i \in 1..Len(DataBlocks) |-> DataBlocks[i].n] = <<1024, 1024, 952>>
       /\ IsFinal(wire[Len(wire)])

C20_Witness ==
  /\ Returned /\ success /\ ~device.layout_valid
  /\ firmware_len = 3000
  /\ device.transfer_size = 1024
  /\ Len(DataBlocks) = 3
  /\ progress[1] = 0 /\ progress[2] = 3
  /\ progress[Len(progress) - 2] = 95

(* ------------------------------------------------------------------ *)
(* Discovery budget, discovery errors, poll sleeps                      *)
(* ------------------------------------------------------------------ *)
InDiscovery == AtFlash("discover") \/ AtFlash("open_once")

\* C21: the sleep wait_for_stm32_dfu_device accumulates (100 ms after
\* each failed attempt) never exceeds the budget of 10000 ms
C21_SleepWithinBudget == InDiscovery => elapsed <= DISCOVERY_TIMEOUT_MS

\* C22: an error an attempt has written to last_error stays there until
\* a later attempt writes another one, and when the budget is spent the
\* caller's buffer gets that error; the not-found message is reported
\* only when last_error was never written
C22_LastErrorReported ==
  [][/\ (InDiscovery /\ InDiscovery' /\ last_error.len > 0) =>
          last_error'.len > 0
     /\ (InDiscovery /\ ~InDiscovery' /\ pc' = "cleanup"
           /\ status_buf_len > 0) =>
          last_msg' = (IF last_error.len > 0 THEN last_error.msg
                       ELSE ERR_NOT_FOUND)]_vars

Max(a, b) == IF a > b THEN a ELSE b

\* C30: between two GETSTATUS polls dfu_wait_ready sleeps the larger of
\* the reported poll timeout and 5 ms, never less than 5 ms
C30_SleepAtLeastFive ==
  (Running("dfu_wait_ready") /\ Top.polls > 0) =>
    Top.slept = Max(Top.poll, 5)

(* ------------------------------------------------------------------ *)
(* Interface selection and descriptor parsing                           *)
(* ------------------------------------------------------------------ *)
\* descriptors in the extra bytes of an alt setting, alt settings of an
\* interface and COUNT*SIZE groups of a name explored per input
MaxDescriptors == 2
MaxAlts == 2
MaxGroups == 2

STM32_DEFAULT_TRANSFER_OLD == 2048
ALT_NAME_SIZE == 128
MAX_SEGMENTS == 8
DFU_FUNCTIONAL_DESCRIPTOR == 33

\* a C string is the sequence of its characters; the terminator is read
\* at the position behind the last one
NUL == ""
At(s, i) == IF i \in 1..Len(s) THEN s[i] ELSE NUL

\* strstr(haystack, needle) != NULL
strstr(haystack, needle) ==
  \E i \in 1..(Len(haystack) - Len(needle) + 1) :
    SubSeq(haystack, i, i + Len(needle) - 1) = needle

\* strchr(cursor, c): position of the first c at or behind cursor, 0 for
\* NULL
strchr(s, cursor, c) ==
  LET hits == { i \in cursor..Len(s) : s[i] = c }
  IN IF hits = {} THEN 0 ELSE CHOOSE i \in hits : \A j \in hits : i <= j

LowerDigits ==
  << "0", "1", "2", "3", "4", "5", "6", "7", "8", "9",
     "a", "b", "c", "d", "e", "f" >>
UpperDigits ==
  << "0", "1", "2", "3", "4", "5", "6", "7", "8", "9",
     "A", "B", "C", "D", "E", "F" >>

\* value of character c as a digit of the base, -1 when it is none
DigitValue(c, base) ==
  LET hits == { i \in 1..base : LowerDigits[i] = c \/ UpperDigits[i] = c }
  IN IF hits = {} THEN -1 ELSE (CHOOSE i \in hits : TRUE) - 1

\* the digits of the base from position i on, added to acc: the value and
\* the position of the first character that is no digit
RECURSIVE scan_digits(_, _, _, _)
scan_digits(s, i, base, acc) ==
  IF DigitValue(At(s, i), base) >= 0
  THEN scan_digits(s, i + 1, base, acc * base + DigitValue(At(s, i), base))
  ELSE [value |-> acc, end |-> i]

\* strtoul(nptr, &endptr, base) on text without white space or sign: with
\* base 16 a "0x" in front of a hexadecimal digit is skipped; without any
\* digit the value is 0 and endptr is nptr
strtoul(s, nptr, base) ==
  LET prefixed == /\ base = 16
                  /\ At(s, nptr) = "0"
                  /\ At(s, nptr + 1) \in {"x", "X"}
                  /\ DigitValue(At(s, nptr + 2), 16) >= 0
  IN scan_digits(s, IF prefixed THEN nptr + 2 ELSE nptr, base, 0)

\* parse_size_bytes(text, &next): decimal digits, an optional K, M or B
\* and an optional g
parse_size_bytes(s, text) ==
  LET digits == scan_digits(s, text, 10, 0)
      unit == At(s, digits.end)
      multiplier == IF unit \in {"K", "k"} THEN 1024
                    ELSE IF unit \in {"M", "m"} THEN 1024 * 1024
                    ELSE 1
      after_unit == IF unit \in {"K", "k", "M", "m", "B", "b"}
                    THEN digits.end + 1 ELSE digits.end
      next == IF At(s, after_unit) \in {"g", "G"} THEN after_unit + 1
              ELSE after_unit
  IN [value |-> digits.value * multiplier, next |-> next]

\* the loop of parse_alt_memory_layout from cursor on, with the segments
\* stored so far.  The texts explored keep every number below 2^31, so
\* the conversions to uint32_t change no value.
RECURSIVE layout_scan(_, _, _)
layout_scan(s, cursor, segments) ==
  LET slash == strchr(s, cursor, "/")
      addr_at == slash + 1
      start == strtoul(s, addr_at, 16)
      count == strtoul(s, start.end + 1, 10)
      page_size == parse_size_bytes(s, count.end + 1)
  IN IF slash = 0 THEN segments
     ELSE IF ~(At(s, addr_at) = "0" /\ At(s, addr_at + 1) \in {"x", "X"})
     THEN layout_scan(s, addr_at, segments)
     ELSE IF At(s, start.end) # "/"
     THEN layout_scan(s, start.end, segments)
     ELSE IF At(s, count.end) # "*"
     THEN layout_scan(s, count.end, segments)
     ELSE IF page_size.value = 0
     THEN layout_scan(s, page_size.next, segments)
     ELSE layout_scan(s, page_size.next,
            IF Len(segments) < MAX_SEGMENTS
            THEN Append(segments,
                        Seg(start.value,
                            start.value + count.value * page_size.value,
                            page_size.value))
            ELSE segments)

\* parse_alt_memory_layout(alt_name, &layout): the layout and the return
\* value (layout->count > 0)
parse_alt_memory_layout(alt_name) ==
  LET segments == layout_scan(alt_name, 1, <<>>)
  IN [valid |-> Len(segments) > 0, layout |-> segments]

\* parse_transfer_size's default
DefaultTransfer ==
  IF variant = 1 THEN STM32_DEFAULT_TRANSFER_OLD ELSE STM32_DEFAULT_TRANSFER

\* the loop of parse_transfer_size with `extra' at offset off of the
\* bytes and `remaining' bytes left: the transfer size returned and the
\* number of descriptors looked at
RECURSIVE transfer_size_walk(_, _, _, _)
transfer_size_walk(bytes, off, remaining, looked) ==
  LET length == bytes[off + 1]
      type == bytes[off + 2]
      transfer == (bytes[off + 6] + bytes[off + 7] * 256) % UINT16_MOD
  IN IF remaining < (IF variant = 1 THEN 3 ELSE 9)
     THEN [transfer |-> DefaultTransfer, looked |-> looked]
     ELSE IF length < 3 \/ length > remaining
     THEN [transfer |-> DefaultTransfer, looked |-> looked + 1]
     ELSE IF type = DFU_FUNCTIONAL_DESCRIPTOR /\ length >= 9
     THEN [transfer |-> IF transfer = 0 THEN DefaultTransfer ELSE transfer,
           looked |-> looked + 1]
     ELSE transfer_size_walk(bytes, off + length, remaining - length,
                             looked + 1)

\* parse_transfer_size looking at the first descriptor only
parse_transfer_size_first_only(extra) ==
  IF Len(extra) < 9
  THEN [transfer |-> DefaultTransfer, looked |-> 0]
  ELSE transfer_size_walk(extra, 0, Min(Len(extra), extra[1]), 0)

\* parse_transfer_size(alt) for an alt setting with these extra bytes
parse_transfer_size(extra) ==
  IF Len(extra) < 9
  THEN [transfer |-> DefaultTransfer, looked |-> 0]
  ELSE transfer_size_walk(extra, 0, Len(extra), 0)

\* the names the selection looks for
NAME_INTERNAL == << "I", "n", "t", "e", "r", "n", "a", "l" >>
NAME_INTERNAL_FLASH == << "I", "n", "t", "e", "r", "n", "a", "l", " ",
     "F", "l", "a", "s", "h" >>

\* stm32_dfu_device_t selected = {0}
NoSelection ==
  [found |-> FALSE, interface_number |-> 0, alt_setting |-> 0,
   transfer_size |-> 0, alt_name |-> <<>>]

\* the inner loop of select_dfu_interface over the alt settings of
\* interface i from alt setting j on; an alt setting is its
\* bAlternateSetting, whether class, subclass and protocol match, the
\* name its string descriptor gives (empty without one) and its extra
\* bytes
RECURSIVE select_alt(_, _, _, _)
select_alt(iface, i, j, selected) ==
  LET alt == iface[j]
      is_internal ==
        strstr(alt.name,
               IF variant = 1 THEN NAME_INTERNAL_FLASH ELSE NAME_INTERNAL)
      is_default_alt == alt.bAlternateSetting = 0
      take == \/ variant = 2
              \/ ~selected.found
              \/ is_internal
              \/ (is_default_alt /\ selected.alt_setting # 0)
      taken == [found |-> TRUE,
                interface_number |-> i - 1,
                alt_setting |-> alt.bAlternateSetting,
                transfer_size |-> parse_transfer_size(alt.extra).transfer,
                alt_name |->
                  SubSeq(alt.name, 1, Min(Len(alt.name), ALT_NAME_SIZE - 1))]
  IN IF j > Len(iface) THEN selected
     ELSE IF ~alt.match THEN select_alt(iface, i, j + 1, selected)
     ELSE IF take /\ is_internal THEN taken
     ELSE select_alt(iface, i, j + 1, IF take THEN taken ELSE selected)

\* the outer loop over the interfaces, left once something is found
RECURSIVE select_interface(_, _, _)
select_interface(config, i, selected) ==
  IF i > Len(config) \/ selected.found THEN selected
  ELSE select_interface(config, i + 1, select_alt(config[i], i, 1, selected))

\* select_dfu_interface on a configuration descriptor (a sequence of
\* interfaces, each a sequence of alt settings), <<>> without one
select_dfu_interface(config) == select_interface(config, 1, NoSelection)

(* ------------------------------------------------------------------ *)
(* The helper functions called on their own                             *)
(* ------------------------------------------------------------------ *)
\* one descriptor of the extra bytes: bLength, bDescriptorType, the bytes
\* at offsets 5 and 6 and zeros elsewhere, `size' bytes of it present
Descriptor(length, type, lo, hi, size) ==
  [i \in 1..size |-> CASE i = 1 -> length
                      [] i = 2 -> type
                      [] i = 6 -> lo
                      [] i = 7 -> hi
                      [] OTHER -> 0]

\* bLength values: none, too short for a header, a header only, one byte
\* short of a functional descriptor, a functional descriptor, a longer one
DescriptorLengths == {0, 2, 3, 8, 9, 10}
\* the functional descriptor and the interface descriptor type
DescriptorTypes == {DFU_FUNCTIONAL_DESCRIPTOR, 4}
\* wTransferSize bytes: 0, 258 and 65535
TransferFields == { <<0, 0>>, <<2, 1>>, <<255, 255>> }

\* the bytes present of a descriptor with this bLength: the header at
\* least, all of it, or (the longest) cut off by the end of the extra bytes
PresentSizes(l) == IF l < 3 THEN {3} ELSE IF l = 10 THEN {9, 10} ELSE {l}

ExtraPieces ==
  UNION { { Descriptor(l, t, v[1], v[2], sz) : sz \in PresentSizes(l) } :
            l \in DescriptorLengths, t \in DescriptorTypes,
            v \in TransferFields }

RECURSIVE ExtraBytes(_)
ExtraBytes(k) ==
  IF k = 0 THEN { <<>> }
  ELSE ExtraBytes(k - 1)
         \cup { a \o p : a \in ExtraBytes(k - 1), p \in ExtraPieces }

\* names of alt settings as ST's bootloader reports them
NAME_FLASH == << "@", "I", "n", "t", "e", "r", "n", "a", "l", " ", "F",
     "l", "a", "s", "h", " ", " ", "/", "0", "x", "0", "8", "0", "0", "0",
     "0", "0", "0", "/", "1", "6", "*", "0", "0", "1", "K", "a", ",", "1",
     "1", "2", "*", "0", "0", "1", "K", "g" >>
NAME_OPTION == << "@", "O", "p", "t", "i", "o", "n", " ", "B", "y", "t",
     "e", "s", " ", " ", "/", "0", "x", "1", "F", "F", "F", "C", "0", "0",
     "0", "/", "0", "1", "*", "0", "1", "6", " ", "e" >>
NAME_RAM == << "@", "I", "n", "t", "e", "r", "n", "a", "l", " ", "R", "A",
     "M", " ", " ", "/", "0", "x", "2", "0", "0", "0", "0", "0", "0", "0",
     "/", "0", "1", "*", "0", "0", "4", "K", "e" >>
AltNames == { <<>>, NAME_FLASH, NAME_OPTION, NAME_RAM }

\* alt settings: those of class Application, subclass 1, protocol 2 with
\* alternate setting 0 or 1 and each of the names, and one of another
\* class
AltSettings ==
  [match : {TRUE}, bAlternateSetting : {0, 1}, name : AltNames,
   extra : { <<>> }]
  \cup { [match |-> FALSE, bAlternateSetting |-> 0, name |-> <<>>,
          extra |-> <<>>] }

RECURSIVE Interfaces(_)
Interfaces(k) ==
  IF k = 0 THEN { <<>> }
  ELSE Interfaces(k - 1)
         \cup { a \o <<alt>> : a \in Interfaces(k - 1), alt \in AltSettings }

\* configurations of one interface, and of two shorter ones
Configs ==
  { <<a>> : a \in Interfaces(MaxAlts) }
  \cup { <<a, b>> : a \in Interfaces(MaxAlts - 1),
                    b \in Interfaces(MaxAlts - 1) }

\* the parts of a group "/0xADDR/COUNT*SIZE" of a name, well-formed and
\* not
AddressTexts == { << "0", "x", "1", "0" >>, << "0", "x", "1",
     "4" >>, << "0", "x" >> }
CountTexts == { << "0" >>, << "1" >>, << "4" >> }
SizeTexts == { << "4" >>, << "0" >> }
TailTexts == { <<>>, << "g", ",", "1", "*", "4", "g" >> }
GroupTexts ==
  { <<"/">> \o a \o <<"/">> \o c \o <<"*">> \o z \o t :
      a \in AddressTexts, c \in CountTexts, z \in SizeTexts, t \in TailTexts }

RECURSIVE GroupNames(_)
GroupNames(k) ==
  IF k = 0 THEN { <<>> }
  ELSE GroupNames(k - 1)
         \cup { a \o g : a \in GroupNames(k - 1), g \in GroupTexts }

\* the layout string of the documentation, the same behind a slash, and a
\* name of nine groups
NAME_EXAMPLE == << "0", "x", "0", "8", "0", "0", "0", "0", "0", "0", "/",
     "1", "6", "*", "0", "0", "1", "K", "a", ",", "1", "1", "2", "*", "0",
     "0", "1", "K", "g" >>
NAME_EXAMPLE_SLASH == << "/", "0", "x", "0", "8", "0", "0", "0", "0", "0",
     "0", "/", "1", "6", "*", "0", "0", "1", "K", "a", ",", "1", "1", "2",
     "*", "0", "0", "1", "K", "g" >>
NAME_NINE ==
  LET g == << "/", "0", "x", "1", "0", "/", "1", "*", "4" >>
  IN g \o g \o g \o g \o g \o g \o g \o g \o g

LayoutNames ==
  GroupNames(MaxGroups)
    \cup { NAME_EXAMPLE, NAME_EXAMPLE_SLASH, NAME_FLASH, NAME_OPTION,
           NAME_NINE, << "/", "0", "x", "1", "0", "/", "4", ",", "4", "*",
     "4" >>, << "/", "0", "x", "1", "0", "/", "4", "*", "1", "K" >>,
           << "/", "0", "X", "1", "f", "/", "4", "*", "4", "B", "g", "/",
     "0", "x", "2", "0", "/", "1", "*", "1", "m" >> }

\* layouts and addresses find_segment is called with
UnitLayouts == { parse_alt_memory_layout(n).layout : n \in GroupNames(MaxGroups) }
UnitAddresses == 15..37

\* addresses a vendor command is sent with
CommandAddresses ==
  {0, 1, 255, 256, 65535, 65536, 16777215, 16777216, STM32_BASE_ADDRESS,
   305419896, 2147483647}

\* the calls explored: the functions of both copies, and those of the
\* layout-aware copy
UnitCalls ==
  [fn : {"parse_transfer_size"}, extra : ExtraBytes(MaxDescriptors)]
  \cup [fn : {"select_dfu_interface"}, ret : {"SUCCESS"}, config : Configs]
  \cup [fn : {"select_dfu_interface"}, ret : {"ERROR_IO"}, config : { <<>> }]
  \cup [fn : {"dfu_set_address_pointer"}, address : CommandAddresses]
  \cup (IF variant = 1 THEN {}
        ELSE [fn : {"parse_alt_memory_layout"}, alt_name : LayoutNames]
             \cup [fn : {"find_segment"}, layout : UnitLayouts,
                   address : UnitAddresses]
             \cup [fn : {"erase_page_command"}, address : CommandAddresses])

InitUnits ==
  /\ variant \in {1, 2}
  /\ status_buf_len = 0
  /\ pc = "unit"
  /\ stack = <<>>
  /\ ret = FALSE
  /\ success = FALSE
  /\ progress = <<>>
  /\ status_buf = EmptyText
  /\ last_msg = ""
  /\ cb_error = FALSE
  /\ firmware_len = 0
  /\ firmware_data = FALSE
  /\ ctx = FALSE
  /\ chunk_buffer = FALSE
  /\ device = NoDevice
  /\ usb_open = 0
  /\ usb_claimed = 0
  /\ usb_orphan = FALSE
  /\ elapsed = 0
  /\ devs_left = 0
  /\ last_error = EmptyText
  /\ written = 0
  /\ block_number = 0
  /\ wire = <<>>
  /\ lastWR = NoCall
  /\ call \in UnitCalls
  /\ call_result = NoResult
  /\ NoSlider

flash_vars ==
  << variant, status_buf_len, pc, stack, ret, success, progress, status_buf,
     last_msg, cb_error, firmware_len, firmware_data, ctx, chunk_buffer,
     device, usb_open, usb_claimed, usb_orphan, elapsed, devs_left, last_error,
     written, block_number, wire, lastWR >>

Calling(fn) == call.fn = fn /\ ~call_result.done
Returns(value) ==
  /\ call_result' = [done |-> TRUE, value |-> value]
  /\ UNCHANGED << flash_vars, call, slider_vars >>

unit_parse_transfer_size ==
  /\ Calling("parse_transfer_size")
  /\ Returns(parse_transfer_size(call.extra))

unit_select_dfu_interface ==
  /\ Calling("select_dfu_interface")
  /\ Returns(IF call.ret # "SUCCESS" THEN NoSelection
             ELSE select_dfu_interface(call.config))

unit_parse_alt_memory_layout ==
  /\ Calling("parse_alt_memory_layout")
  /\ Returns(parse_alt_memory_layout(call.alt_name))

unit_find_segment ==
  /\ Calling("find_segment")
  /\ Returns(find_segment(call.layout, call.address))

unit_dfu_set_address_pointer ==
  /\ Calling("dfu_set_address_pointer")
  /\ Returns(dfu_set_address_pointer(call.address))

unit_erase_page_command ==
  /\ Calling("erase_page_command")
  /\ Returns(erase_page_command(call.address))

NextUnits ==
  \/ unit_parse_transfer_size
  \/ unit_select_dfu_interface
  \/ unit_parse_alt_memory_layout
  \/ unit_find_segment
  \/ unit_dfu_set_address_pointer
  \/ unit_erase_page_command

SpecUnits == InitUnits /\ [][NextUnits]_vars

Called(fn) == call.fn = fn /\ call_result.done

(* ------------------------------------------------------------------ *)
(* Properties of the helper functions                                   *)
(* ------------------------------------------------------------------ *)
\* positions <<interface, alt setting>> of the alt settings of a
\* configuration that match class, subclass and protocol, in scan order
MatchingAlts(config) ==
  { p \in (1..Len(config)) \X (1..MaxAlts) :
      /\ p[2] <= Len(config[p[1]])
      /\ config[p[1]][p[2]].match }
ScannedBefore(p, q) == p[1] < q[1] \/ (p[1] = q[1] /\ p[2] < q[2])
FirstOf(S) == CHOOSE p \in S : \A q \in S : p = q \/ ScannedBefore(p, q)
LastOf(S) == CHOOSE p \in S : \A q \in S : p = q \/ ScannedBefore(q, p)
PreferredAlt(config) ==
  LET matching == MatchingAlts(config)
      internal == { p \in matching :
                      strstr(config[p[1]][p[2]].name, NAME_INTERNAL) }
      default == { p \in matching :
                     config[p[1]][p[2]].bAlternateSetting = 0 }
  IN IF internal # {} THEN FirstOf(internal)
     ELSE IF default # {} THEN LastOf(default)
     ELSE LastOf(matching)

\* C23: select_dfu_interface finds nothing exactly when no alt setting
\* matches, and otherwise returns the first matching alt setting whose
\* name contains "Internal", else the last matching one with alternate
\* setting 0, else the last matching one
C23_SelectionOrder ==
  (Called("select_dfu_interface") /\ call.ret = "SUCCESS") =>
    LET matching == MatchingAlts(call.config)
        p == PreferredAlt(call.config)
        alt == call.config[p[1]][p[2]]
        selected == call_result.value
    IN /\ selected.found <=> matching # {}
       /\ matching # {} =>
            /\ selected.interface_number = p[1] - 1
            /\ selected.alt_setting = alt.bAlternateSetting
            /\ selected.alt_name = alt.name

\* offsets of the descriptors that follow one another from offset off,
\* each at least 3 bytes long and inside the bytes
RECURSIVE DescriptorChain(_, _)
DescriptorChain(bytes, off) ==
  IF off >= Len(bytes) THEN {}
  ELSE IF bytes[off + 1] < 3 \/ off + bytes[off + 1] > Len(bytes) THEN {}
  ELSE {off} \cup DescriptorChain(bytes, off + bytes[off + 1])
FunctionalDescriptors(bytes) ==
  { o \in DescriptorChain(bytes, 0) :
      bytes[o + 2] = DFU_FUNCTIONAL_DESCRIPTOR /\ bytes[o + 1] >= 9 }

\* C24: parse_transfer_size returns the 16-bit little-endian value at
\* offset 5 of the first functional descriptor (type 0x21, length >= 9)
\* among the descriptors of the extra bytes when it is not 0, and the
\* default otherwise; it never returns 0, and it looks at no more
\* descriptors than the extra bytes can hold
C24_TransferSize ==
  Called("parse_transfer_size") =>
    LET bytes == call.extra
        functional == FunctionalDescriptors(bytes)
        o == CHOOSE x \in functional : \A y \in functional : x <= y
        field == bytes[o + 6] + 256 * bytes[o + 7]
        value == call_result.value
    IN /\ value.transfer \in 1..(UINT16_MOD - 1)
       /\ value.looked <= Len(bytes) \div 3 + 1
       /\ value.transfer =
            (IF functional = {} \/ field = 0 THEN DefaultTransfer ELSE field)

C24_Witness ==
  /\ Called("parse_transfer_size")
  /\ Len(call.extra) = 12
  /\ FunctionalDescriptors(call.extra) = {3}
  /\ call_result.value = [transfer |-> 258, looked |-> 2]

\* C25: "0x08000000/16*001Ka,112*001Kg" parses to the two segments
\* [0x08000000, 0x08004000) and [0x08004000, 0x08022000) of 1024-byte
\* pages
C25_ExampleLayout ==
  (Called("parse_alt_memory_layout") /\ call.alt_name = NAME_EXAMPLE) =>
    call_result.value.layout =
      << Seg(STM32_BASE_ADDRESS, 134234112, 1024),
         Seg(134234112, 134356992, 1024) >>

\* segments of the layout containing the address
Containing(layout, address) ==
  { i \in 1..Len(layout) :
      layout[i].start <= address /\ address < layout[i].end }

\* C26: find_segment returns a segment with start <= address < end when
\* some segment contains the address, and none otherwise
C26_FindSegment ==
  Called("find_segment") =>
    IF Containing(call.layout, call.address) = {}
    THEN call_result.value = 0
    ELSE call_result.value \in Containing(call.layout, call.address)

C26_Witness ==
  /\ Called("find_segment")
  /\ Len(call.layout) = 2
  /\ call.layout[1].start < call.layout[1].end
  /\ call.address = call.layout[1].end
  /\ call.address = call.layout[2].start
  /\ call_result.value = 2

Overlap(s, t) == s.start < t.end /\ t.start < s.end

\* C27: no two segments of a parsed layout overlap
C27_NoOverlap ==
  Called("parse_alt_memory_layout") =>
    LET layout == call_result.value.layout
    IN \A i, j \in 1..Len(layout) : i < j => ~Overlap(layout[i], layout[j])

\* C28: every segment of a parsed layout has start < end, a page size
\* above 0 and a length that is a multiple of the page size
C28_SegmentsWellFormed ==
  Called("parse_alt_memory_layout") =>
    LET layout == call_result.value.layout
    IN \A i \in 1..Len(layout) :
         /\ layout[i].start < layout[i].end
         /\ layout[i].page_size > 0
         /\ (layout[i].end - layout[i].start) % layout[i].page_size = 0

\* the address in bytes 1..4 of a vendor command payload, least
\* significant byte first
DecodeAddress(payload) ==
  payload[2] + 256 * payload[3] + 65536 * payload[4]
    + 16777216 * payload[5]

\* C29: Set-Address-Pointer and Erase-Page go out as DNLOAD block 0 with
\* 5 bytes, the command byte 0x21 or 0x41 and the address least
\* significant byte first, which decodes to the address again, and their
\* status poll does not allow manifestation
C29_VendorCommandEncoding ==
  (Called("dfu_set_address_pointer") \/ Called("erase_page_command")) =>
    LET dnload == call_result.value
    IN /\ dnload.req = "DNLOAD"
       /\ dnload.block = 0
       /\ dnload.len = 5
       /\ Len(dnload.payload) = 5
       /\ \A k \in 1..5 : dnload.payload[k] \in 0..255
       /\ dnload.payload[1] =
            (IF call.fn = "dfu_set_address_pointer" THEN 33 ELSE 65)
       /\ DecodeAddress(dnload.payload) = call.address
       /\ ~dnload.allow_manifest

C29_Witness ==
  /\ Called("erase_page_command")
  /\ call.address = 305419896
  /\ call_result.value.payload = <<65, 120, 86, 52, 18>>

(* ------------------------------------------------------------------ *)
(* dfu_wait_ready polling without a cap, against a device that          *)
(* eventually decides                                                   *)
(* ------------------------------------------------------------------ *)
\* the GETSTATUS results on which the loop goes round again, and those on
\* which it returns
TransientReplies ==
  { r \in GetStatusResults : ~dfu_wait_ready_step(r, FALSE).done }
DecisiveReplies == GetStatusResults \ TransientReplies

dfu_wait_ready_transient == dfu_wait_ready_poll(TransientReplies, FALSE)
dfu_wait_ready_decisive == dfu_wait_ready_poll(DecisiveReplies, FALSE)

NextWaitReadyFair == dfu_wait_ready_transient \/ dfu_wait_ready_decisive

\* the device does not answer with transient states for ever
SpecWaitReadyFair ==
  /\ InitWaitReady
  /\ [][NextWaitReadyFair]_vars
  /\ WF_vars(dfu_wait_ready_decisive)

\* the states the loop waits in
TransientStates ==
  {DFU_STATE_appIDLE, DFU_STATE_appDETACH, DFU_STATE_dfuDNLOAD_SYNC,
   DFU_STATE_dfuDNBUSY, DFU_STATE_dfuUPLOAD_IDLE}

\* C31: dfu_wait_ready never returns on a reply with status 0 and a
\* transient state, after any number of polls it can still poll again,
\* and when the device eventually reports a decisive outcome it returns
C31_PollsUntilDecisive ==
  /\ [](ReturnedOnReply =>
          (lastWR.status # 0 \/ lastWR.state \notin TransientStates))
  /\ [](Running("dfu_wait_ready") => ENABLED dfu_wait_ready_transient)
  /\ <>(stack = <<>>)

C31_Witness ==
  /\ Running("dfu_wait_ready")
  /\ Top.polls = MaxPolls
  /\ Top.slept = 100

(* ------------------------------------------------------------------ *)
(* Transfers, erase order and coverage of the image                     *)
(* ------------------------------------------------------------------ *)
\* the DNLOAD transfer of a request went through with all its bytes
Complete(e) == e.err = "" /\ e.sent = e.len

\* C32: dfu_download_block makes one DNLOAD transfer; when it fails or is
\* short the call returns false at once without a status poll, and no
\* further DNLOAD, GETSTATUS or CLRSTATUS follows in the run; when it is
\* complete dfu_wait_ready starts with the caller's allow_manifest
C32_FailedTransferNotRetried ==
  [][/\ Running("dfu_download_block") =>
          /\ Len(wire') = Len(wire) + 1
          /\ IF Complete(wire'[Len(wire')])
             THEN stack' = <<WaitReadyFrame(Top.req.allow_manifest)>> \o Pop
             ELSE /\ stack' = Pop
                  /\ ~ret'
                  /\ last_msg' \in {ERR_SEND, ERR_SEND_SHORT}
                  /\ lastWR' = lastWR
     /\ (wire # <<>> /\ ~Complete(wire[Len(wire)])) =>
          /\ wire' = wire
          /\ lastWR' = lastWR
          /\ ~Running("dfu_wait_ready")']_vars

C32_Witness ==
  /\ Len(wire) = 3
  /\ IsData(wire[3])
  /\ wire[3].err = ""
  /\ wire[3].sent = wire[3].len - 1
  /\ last_msg = ERR_SEND_SHORT
  /\ Returned

\* the address pointer in force when request j is sent: the address of
\* the last set-address-pointer command before it
RECURSIVE PointerAt(_)
PointerAt(j) ==
  IF j <= 1 THEN 0
  ELSE IF IsSetAddress(wire[j - 1]) THEN wire[j - 1].addr
  ELSE PointerAt(j - 1)

\* where the device writes the data block wire[j]: address pointer +
\* (block number - 2) * transfer size
EffectiveAddress(j) ==
  PointerAt(j) + (wire[j].block - 2) * device.transfer_size

\* the addresses the data block wire[j] writes: one per payload byte
WrittenBy(j) ==
  EffectiveAddress(j)..(EffectiveAddress(j) + wire[j].len - 1)

\* the erase-page command wire[i] erases the page that holds address a
ErasesPageOf(i, a) ==
  /\ IsErasePage(wire[i])
  /\ \E s \in 1..Len(device.layout) :
       /\ device.layout[s].start <= wire[i].addr
       /\ wire[i].addr < device.layout[s].end
       /\ wire[i].addr <= a
       /\ a < wire[i].addr + device.layout[s].page_size

\* C33: every address a data block writes was erased earlier in the run
\* (unknown layout: by the mass erase; known layout: by an erase-page
\* command for its page), and no erase command for a page follows a data
\* block written into that page
C33_ErasedBeforeWritten ==
  \A j \in 1..Len(wire) :
    IsData(wire[j]) =>
      IF device.layout_valid
      THEN \A a \in WrittenBy(j) :
             /\ \E i \in 1..(j - 1) : ErasesPageOf(i, a)
             /\ \A i \in (j + 1)..Len(wire) : ~ErasesPageOf(i, a)
      ELSE /\ \E i \in 1..(j - 1) : IsMassErase(wire[i]) /\ Complete(wire[i])
           /\ \A i \in (j + 1)..Len(wire) :
                ~IsMassErase(wire[i]) /\ ~IsErasePage(wire[i])

\* the same for the image bytes of the block alone, without its pad byte
C33_ImageBytesErased ==
  \A j \in 1..Len(wire) :
    (IsData(wire[j]) /\ device.layout_valid) =>
      \A a \in EffectiveAddress(j)..(EffectiveAddress(j) + wire[j].n - 1) :
        /\ \E i \in 1..(j - 1) : ErasesPageOf(i, a)
        /\ \A i \in (j + 1)..Len(wire) : ~ErasesPageOf(i, a)

\* C34: the k-th data block is written at 0x08000000 + w_k, where w_k is
\* the number of image bytes of the data blocks before it, its payload
\* holds its n_k image bytes, and a successful run has sent the whole
\* image
C34_ContiguousCoverage ==
  /\ \A j \in 1..Len(wire) :
       IsData(wire[j]) =>
         /\ EffectiveAddress(j) = STM32_BASE_ADDRESS + BytesSent(j - 1)
         /\ wire[j].len >= wire[j].n
  /\ (Returned /\ success) => BytesSent(Len(wire)) = firmware_len

\* the addressing and the total alone
C34_AddressesContiguous ==
  /\ \A j \in 1..Len(wire) :
       IsData(wire[j]) =>
         EffectiveAddress(j) = STM32_BASE_ADDRESS + BytesSent(j - 1)
  /\ (Returned /\ success) => BytesSent(Len(wire)) = firmware_len

\* C36: when dfu_prepare_idle returns true, the last GETSTATUS of the run
\* was answered (the device is present) with status 0 and state dfuIDLE or
\* dfuDNLOAD_IDLE
C36_PreparedMeansIdle ==
  [][(Running("dfu_prepare_idle") /\ stack' = Pop /\ ret') =>
       /\ ReturnedOnReply
       /\ lastWR.status = 0
       /\ lastWR.state \in {DFU_STATE_dfuIDLE, DFU_STATE_dfuDNLOAD_IDLE}]_vars

\* C37: a run of dfu_loader_flash that returns success has delivered no
\* error message to the client's status callback
C37_OnlyPhaseMessages == (Returned /\ success) => ~cb_error

(* ------------------------------------------------------------------ *)
(* A flash run with a device that answers every request as ready       *)
(* ------------------------------------------------------------------ *)
\* every GETSTATUS reports status 0 and an idle state
ReadyReplies ==
  { r \in FlashReplies :
      /\ r.err = "" /\ r.n = 6 /\ r.status = 0
      /\ r.state \in {DFU_STATE_dfuIDLE, DFU_STATE_dfuDNLOAD_IDLE} }

dfu_download_block_ready == dfu_download_block_from(TRUE)
dfu_wait_ready_ready == dfu_wait_ready_on(ReadyReplies)

NextReady ==
  \/ flash_load
  \/ flash_init
  \/ wait_for_stm32_dfu_device
  \/ open_stm32_dfu_device_once
  \/ open_stm32_dfu_device_none
  \/ wait_for_stm32_dfu_device_timeout
  \/ dfu_wait_ready_ready
  \/ dfu_prepare_idle
  \/ dfu_download_block_ready
  \/ dfu_erase_range
  \/ flash_after_prepare
  \/ flash_after_mass_erase
  \/ flash_after_prepare2
  \/ flash_after_set_base
  \/ flash_write_loop
  \/ flash_after_erase
  \/ flash_after_set_address
  \/ flash_after_data
  \/ flash_after_final
  \/ flash_cleanup

\* the calling thread keeps running: every step of the run is taken
SpecReady == Init /\ [][NextReady]_vars /\ WF_vars(NextReady)

\* an iteration of the write loop has sent its data block and the block
\* was accepted
IterationDone == AtFlash("after_data") /\ ret

\* the finalize step: the zero-length DNLOAD has been handed over
AtFinalize == pc = "after_final"

\* C35 as stated: every iteration that does not fail has a chunk of at
\* least one byte and increases `written', the loop runs at most
\* firmware_len iterations, and with a ready device the run reaches the
\* finalize step from the top of the loop
C35_LoopReachesFinalize ==
  /\ [][IterationDone => (chunk_plan.size >= 1 /\ written' > written)]_vars
  /\ [](Len(DataBlocks) <= firmware_len)
  /\ (AtFlash("loop") ~> AtFinalize)

\* C35: every iteration that does not fail has a chunk of at least one
\* byte and increases `written', the loop runs at most firmware_len
\* iterations, and with a ready device the run leaves the loop either
\* for the finalize step or, with a known layout, because the next chunk
\* address is in no segment
C35_LoopProgress ==
  /\ [][IterationDone => (chunk_plan.size >= 1 /\ written' > written)]_vars
  /\ [](Len(DataBlocks) <= firmware_len)
  /\ [][(AtFlash("loop") /\ pc' = "cleanup") =>
          /\ device.layout_valid
          /\ find_segment(device.layout, STM32_BASE_ADDRESS + written) = 0
          /\ last_msg' = ERR_ADDRESS]_vars
  /\ (AtFlash("loop") ~> (AtFinalize \/ last_msg = ERR_ADDRESS))

\* a ready device with a known layout took four chunks and the run is at
\* the finalize step
C35_Witness ==
  /\ AtFinalize
  /\ device.layout_valid
  /\ Len(DataBlocks) = MaxLen
  /\ written = firmware_len

(* ------------------------------------------------------------------ *)
(* mercuryio/serialslider.c: packet framing on the slider's serial port *)
(* ------------------------------------------------------------------ *)
MaxPayload == 2

SLIDER_SYN == 255
SLIDER_ESC == 253
SLIDER_CMD_AUTO_SCAN == 1
SLIDER_CMD_SET_LED == 2
SLIDER_CMD_AUTO_SCAN_START == 3
SLIDER_CMD_RESET == 16
SLIDER_CMD_GET_BOARD_INFO == 240
READ_NO_DATA == 254
READ_PORT_LOST == 255

\* a uint8_t; a slider_packet_t is its data[BUFSIZE] as a tuple, data[i]
\* at index i + 1: syn, cmd, size, then the payload
Byte(n) == ((n % 256) + 256) % 256
Syn(packet) == packet[1]
Cmd(packet) == packet[2]
Size(packet) == packet[3]
Payload(packet) == SubSeq(packet, 4, 3 + Size(packet))

\* an escape test that holds for the sync byte and for the escape byte
escape_test_either(b) == b = 255 \/ b = 253

\* the test of sliderserial_writeresp's loop on a payload byte: equal to
\* 0xff and equal to 0xfd
escape_test(b) == b = 255 /\ b = 253

\* the sum of a sequence of bytes
RECURSIVE SumBytes(_)
SumBytes(bytes) ==
  IF Len(bytes) = 0 THEN 0
  ELSE IF Len(bytes) = 1 THEN bytes[1]
  ELSE LET half == Len(bytes) \div 2
       IN SumBytes(SubSeq(bytes, 1, half))
          + SumBytes(SubSeq(bytes, half + 1, Len(bytes)))

\* sliderserial_writeresp: the checksum starts at 0 - syn - cmd - size;
\* the loop subtracts each payload byte from it and replaces by 0xfe a
\* byte that passes the escape test; the checksum is stored after the
\* payload and `length' bytes are handed to send_data
sliderserial_writeresp(packet) ==
  LET size == Size(packet)
      checksum == Byte(0 - Syn(packet) - Cmd(packet) - size
                       - SumBytes(Payload(packet)))
      length == Byte(size + 4)
      data == [i \in 1..BUFSIZE |->
                 IF i = size + 4 THEN checksum
                 ELSE IF i \in 4..(size + 3) /\ escape_test(packet[i])
                 THEN 254
                 ELSE packet[i]]
  IN [data |-> data, sent |-> SubSeq(data, 1, length)]

\* serial_read_cmd's locals at its while loop, and the bytes it has read
ReaderStart ==
  [pc |-> "read", checksum |-> 0, rep_size |-> 0, ESC |-> FALSE,
   reponse |-> ZeroPacket, ret |-> 0, pos |-> 0]

\* one pass of serial_read_cmd's loop body with the byte c that
\* serial_read1 delivered
serial_read_cmd_byte(r, c) ==
  IF c = 255
  THEN [r EXCEPT !.reponse = [ZeroPacket EXCEPT ![1] = c],
                 !.rep_size = 0, !.ESC = FALSE,
                 !.checksum = Byte(@ + 255)]
  ELSE IF Syn(r.reponse) # 255 THEN r
  ELSE IF c = 253 THEN [r EXCEPT !.ESC = TRUE]
  ELSE LET b == IF r.ESC THEN Byte(c + 1) ELSE c
           q == [r EXCEPT !.ESC = FALSE, !.checksum = Byte(@ + b)]
       IN IF Cmd(q.reponse) = 0 THEN [q EXCEPT !.reponse[2] = b]
          ELSE IF q.rep_size = 0
          THEN [q EXCEPT !.reponse[3] = b, !.rep_size = 3]
          ELSE LET w == [q EXCEPT !.reponse[q.rep_size + 1] = b]
               IN IF w.rep_size = Size(w.reponse) + 3 \/ w.rep_size > 34
                  THEN [w EXCEPT !.pc = "returned", !.ret = Cmd(w.reponse)]
                  ELSE [w EXCEPT !.rep_size = @ + 1]

\* payload bytes: ordinary ones, the sync byte, the escape byte and 0xfe
SliderBytes == {0, 1, 253, 254, 255}
SliderCommands ==
  {SLIDER_CMD_AUTO_SCAN, SLIDER_CMD_SET_LED, SLIDER_CMD_AUTO_SCAN_START,
   SLIDER_CMD_RESET, SLIDER_CMD_GET_BOARD_INFO}
\* short payloads of every content; and the 32 bytes of a pressure
\* report, the 96 of slider_send_leds and the longest the buffer holds,
\* filled with one byte
SliderPayloads ==
  UNION { [1..n -> SliderBytes] : n \in 0..MaxPayload }
  \cup { [i \in 1..n |-> b] : n \in {32, 96, BUFSIZE - 4}, b \in SliderBytes }
\* package_init, then syn, cmd, size and the payload as the callers set
\* them
Packet(cmd, payload) ==
  [i \in 1..BUFSIZE |->
     IF i = 1 THEN SLIDER_SYN
     ELSE IF i = 2 THEN cmd
     ELSE IF i = 3 THEN Len(payload)
     ELSE IF i <= 3 + Len(payload) THEN payload[i - 3]
     ELSE 0]
SliderRequests ==
  { Packet(cmd, payload) : cmd \in SliderCommands, payload \in SliderPayloads }

\* a packet is prepared in `request' and about to be sent; the other end
\* of the line is in serial_read_cmd, past its PurgeComm
InitSlider ==
  /\ variant = 2
  /\ status_buf_len = 0
  /\ pc = "unit"
  /\ stack = <<>>
  /\ ret = FALSE
  /\ success = FALSE
  /\ progress = <<>>
  /\ status_buf = EmptyText
  /\ last_msg = ""
  /\ cb_error = FALSE
  /\ firmware_len = 0
  /\ firmware_data = FALSE
  /\ ctx = FALSE
  /\ chunk_buffer = FALSE
  /\ device = NoDevice
  /\ usb_open = 0
  /\ usb_claimed = 0
  /\ usb_orphan = FALSE
  /\ elapsed = 0
  /\ devs_left = 0
  /\ last_error = EmptyText
  /\ written = 0
  /\ block_number = 0
  /\ wire = <<>>
  /\ lastWR = NoCall
  /\ call \in [fn : {"sliderserial_writeresp"}, request : SliderRequests]
  /\ call_result = NoResult
  /\ request = call.request
  /\ port = <<>>
  /\ reader = ReaderStart

\* sliderserial_writeresp(&request)
slider_write ==
  /\ Calling("sliderserial_writeresp")
  /\ LET w == sliderserial_writeresp(request)
     IN /\ request' = w.data
        /\ port' = w.sent
  /\ call_result' = [done |-> TRUE]
  /\ UNCHANGED << flash_vars, call, reader >>

\* serial_read_cmd: serial_read1 delivers the next byte of the line
serial_read_cmd ==
  /\ reader.pc = "read"
  /\ reader.pos < Len(port)
  /\ reader' = [serial_read_cmd_byte(reader, port[reader.pos + 1])
                  EXCEPT !.pos = reader.pos + 1]
  /\ UNCHANGED << flash_vars, call, call_result, request, port >>

\* serial_read_cmd: serial_read1 has no byte to deliver; 0xff when
\* GetCommState fails, else 0xfe
serial_read_cmd_no_data ==
  /\ reader.pc = "read"
  /\ call_result.done
  /\ reader.pos = Len(port)
  /\ \E code \in {READ_NO_DATA, READ_PORT_LOST} :
       reader' = [reader EXCEPT !.pc = "returned", !.ret = code]
  /\ UNCHANGED << flash_vars, call, call_result, request, port >>

NextSlider ==
  \/ slider_write
  \/ serial_read_cmd
  \/ serial_read_cmd_no_data

SpecSlider == InitSlider /\ [][NextSlider]_vars

\* C38: a packet of payload size s <= 124 is transmitted as s + 4 bytes:
\* sync, command, size, the s payload bytes as the caller set them, and a
\* checksum; the transmitted bytes sum to 0 modulo 256
C38_FrameLengthAndChecksum ==
  (call_result.done /\ Size(call.request) <= 124) =>
    /\ Len(port) = Size(call.request) + 4
    /\ SubSeq(port, 1, Len(port) - 1) =
         SubSeq(call.request, 1, Size(call.request) + 3)
    /\ port[Len(port)] \in 0..255
    /\ SumBytes(port) % 256 = 0

\* a packet of 124 payload bytes 0xff has been sent
C38_Witness ==
  /\ call_result.done
  /\ Size(call.request) = 124
  /\ port[4] = 255
  /\ Len(port) = BUFSIZE

\* C39: when serial_read_cmd has read the bytes of a packet of nonzero
\* command and at most 32 payload bytes it returns the packet's command,
\* with the packet's size and payload in its reponse
C39_RoundTrip ==
  (/\ call_result.done
   /\ Cmd(call.request) # 0
   /\ Size(call.request) <= 32
   /\ (reader.pc = "returned" \/ reader.pos = Len(port))) =>
    /\ reader.pc = "returned"
    /\ reader.ret = Cmd(call.request)
    /\ Size(reader.reponse) = Size(call.request)
    /\ Payload(reader.reponse) = Payload(call.request)


====
